---- MODULE Spec2Model ----
(***************************************************************************)
(* A model of temps: the grammars that turn text into a TimeExpression     *)
(* (temps-core), the helpers of temps_core::time_utils, and the two        *)
(* resolvers (temps-chrono, temps-jiff) that turn a TimeExpression and a   *)
(* current moment into a date-time.                                        *)
(*                                                                         *)
(* Text is a sequence of one-character strings.  A Result is a record      *)
(* with ok = TRUE and a value, or ok = FALSE and an err record.            *)
(***************************************************************************)
EXTENDS Integers, Sequences, FiniteSets, TLC

VARIABLES
    util,       \* the last call of a time_utils helper: [fn, args, ret]
    input,      \* the text handed to parse
    language,   \* the Language handed to parse
    parsed,     \* what parse returned for (input, language)
    now,        \* the current moment the provider's now() returns
    backend,    \* the provider resolving: "chrono" or "jiff"
    expr,       \* the TimeExpression handed to parse_expression
    resolved    \* what parse_expression returned

vars == <<util, input, language, parsed, now, backend, expr, resolved>>

\* Option<T>::None of a numeric field.
NoneU == -1

\* An operation that has not been called yet.
Idle == [tag |-> "Idle"]

(***************************************************************************)
(* temps_core::time_utils                                                  *)
(***************************************************************************)

\* The width of u8: hour + 12 is computed in u8.
U8Modulus == 256

\* The largest value parse_two_digit_number returns (one or two digits).
MaxTwoDigit == 99

Meridiems == {"AM", "PM", "None"}

Convert12To24HourNoNoon(hour, meridiem) ==
    CASE meridiem = "AM" -> hour
      [] meridiem = "PM" -> (hour + 12) % U8Modulus
      [] OTHER -> hour

Convert12To24Hour(hour, meridiem) ==
    CASE meridiem = "AM" -> IF hour = 12 THEN 0 ELSE hour
      [] meridiem = "PM" -> IF hour = 12 THEN hour ELSE (hour + 12) % U8Modulus
      [] OTHER -> hour

DAYS_PER_WEEK == 7

Modifiers == {"None", "Next", "Last"}

CalculateWeekdayOffsetNextIncludesToday(current_day_offset, target_day_offset, modifier) ==
    LET days_diff == target_day_offset - current_day_offset
    IN  CASE modifier = "None" -> IF days_diff >= 0 THEN days_diff ELSE 7 + days_diff
          [] modifier = "Next" -> IF days_diff >= 0 THEN days_diff ELSE 7 + days_diff
          [] modifier = "Last" -> IF days_diff < 0 THEN days_diff ELSE days_diff - 7

CalculateWeekdayOffsetLastIncludesToday(current_day_offset, target_day_offset, modifier) ==
    LET days_diff == target_day_offset - current_day_offset
    IN  CASE modifier = "None" -> IF days_diff >= 0 THEN days_diff ELSE 7 + days_diff
          [] modifier = "Next" -> IF days_diff > 0 THEN days_diff ELSE 7 + days_diff
          [] modifier = "Last" -> IF days_diff <= 0 THEN days_diff ELSE days_diff - 7

CalculateWeekdayOffset(current_day_offset, target_day_offset, modifier) ==
    LET days_diff == target_day_offset - current_day_offset
    IN  CASE modifier = "None" -> IF days_diff >= 0 THEN days_diff ELSE 7 + days_diff
          [] modifier = "Next" -> IF days_diff > 0 THEN days_diff ELSE 7 + days_diff
          [] modifier = "Last" -> IF days_diff < 0 THEN days_diff ELSE days_diff - 7

SECONDS_PER_HOUR == 3600
SECONDS_PER_MINUTE == 60
MONTHS_PER_YEAR == 12

\* hours is an i8 and minutes a u8, so neither saturating operation of the
\* source can saturate in i32.
CalculateTimezoneOffsetSeconds(hours, minutes) ==
    (hours * SECONDS_PER_HOUR) + (minutes * SECONDS_PER_MINUTE)

(***************************************************************************)
(* Results and errors (temps_core::error)                                  *)
(***************************************************************************)

Ok(v) == [ok |-> TRUE, value |-> v]
Err(e) == [ok |-> FALSE, err |-> e]

ParseErrorWithPosition(text, position) ==
    [kind |-> "ParseError", input |-> text, position |-> position]
DateCalculation(message) == [kind |-> "DateCalculationError", message |-> message]
InvalidDate(year, month, day) ==
    [kind |-> "InvalidDate", year |-> year, month |-> month, day |-> day]
InvalidTime(hour, minute, second) ==
    [kind |-> "InvalidTime", hour |-> hour, minute |-> minute, second |-> second]
InvalidTimezoneOffset(hours, minutes) ==
    [kind |-> "InvalidTimezoneOffset", hours |-> hours, minutes |-> minutes]
ArithmeticOverflow(operation) == [kind |-> "ArithmeticOverflow", operation |-> operation]
BackendError(name) == [kind |-> "BackendError", backend |-> name]
\* Not a TempsError: the call does not return (a panic of the library called).
Panic(what) == [kind |-> "Panic", what |-> what]

AmbiguousTime(message) == [kind |-> "AmbiguousTime", message |-> message]

(***************************************************************************)
(* The Gregorian calendar as chrono and jiff both implement it.            *)
(***************************************************************************)

IsLeapYear(y) == (y % 4 = 0) /\ ((y % 100 # 0) \/ (y % 400 = 0))

DaysInMonth(y, m) ==
    CASE m = 2 -> IF IsLeapYear(y) THEN 29 ELSE 28
      [] m \in {4, 6, 9, 11} -> 30
      [] OTHER -> 31

IsValidDate(y, m, d) == m \in 1 .. 12 /\ d >= 1 /\ d <= DaysInMonth(y, m)

\* Days since 1970-01-01 of a valid date.
DaysFromCivil(y, m, d) ==
    LET yy == IF m <= 2 THEN y - 1 ELSE y
        era == yy \div 400
        yoe == yy - era * 400
        mp == (m + 9) % 12
        doy == ((153 * mp + 2) \div 5) + d - 1
        doe == yoe * 365 + (yoe \div 4) - (yoe \div 100) + doy
    IN  era * 146097 + doe - 719468

\* The date that lies z days after 1970-01-01: the era of 400 years and the
\* day of it, then the year of the era, the day of the year counted from
\* the first of March, and the month counted from March.
CivilFromMonthIndex(y, doy, mp) ==
    [year |-> IF mp < 10 THEN y ELSE y + 1,
     month |-> IF mp < 10 THEN mp + 3 ELSE mp - 9,
     day |-> doy - ((153 * mp + 2) \div 5) + 1]
CivilFromDayOfYear(y, doy) == CivilFromMonthIndex(y, doy, (5 * doy + 2) \div 153)
CivilFromYearOfEra(era, doe, yoe) ==
    CivilFromDayOfYear(yoe + era * 400, doe - (365 * yoe + (yoe \div 4) - (yoe \div 100)))
CivilFromEra(era, doe) ==
    CivilFromYearOfEra(era, doe,
        (doe - (doe \div 1460) + (doe \div 36524) - (doe \div 146096)) \div 365)
CivilFromDays(z) == CivilFromEra((z + 719468) \div 146097, (z + 719468) % 146097)

\* Monday = 0 .. Sunday = 6; 1970-01-01 was a Thursday.
WeekdayFromMonday(y, m, d) == (DaysFromCivil(y, m, d) + 3) % 7

HOURS_PER_DAY == 24
SECONDS_PER_DAY == HOURS_PER_DAY * SECONDS_PER_HOUR

\* A date-time: wall-clock fields and the UTC offset (seconds) they are read in.
DateTime(y, mo, d, h, mi, s, ns, off) ==
    [year |-> y, month |-> mo, day |-> d, hour |-> h, minute |-> mi,
     second |-> s, nanosecond |-> ns, offset |-> off]

AtMidnight(date, off) == DateTime(date.year, date.month, date.day, 0, 0, 0, 0, off)

SecondOfDay(dt) == dt.hour * SECONDS_PER_HOUR + dt.minute * SECONDS_PER_MINUTE + dt.second

\* dt on another date, and dt moved by n days on the calendar, the
\* wall-clock time kept.
OnDate(dt, date) == [dt EXCEPT !.year = date.year, !.month = date.month, !.day = date.day]
AddDays(dt, n) == OnDate(dt, CivilFromDays(DaysFromCivil(dt.year, dt.month, dt.day) + n))

\* dt at the given second of its day.
AtSecondOfDay(dt, sod) ==
    [dt EXCEPT !.hour = sod \div SECONDS_PER_HOUR,
               !.minute = (sod % SECONDS_PER_HOUR) \div SECONDS_PER_MINUTE,
               !.second = sod % SECONDS_PER_MINUTE]

\* dt moved by n seconds of elapsed time, read in the same offset.
AddSeconds(dt, n) ==
    AtSecondOfDay(AddDays(dt, (SecondOfDay(dt) + n) \div SECONDS_PER_DAY),
                  (SecondOfDay(dt) + n) % SECONDS_PER_DAY)

\* The same instant read in another offset.
WithOffset(dt, off) ==
    [AddSeconds(dt, off - dt.offset) EXCEPT !.offset = off]

\* The date n months from (y, m, d), the day clamped to the target month.
AddMonthsClamped(dt, n) ==
    LET idx == dt.year * 12 + (dt.month - 1) + n
        y == idx \div 12
        m == (idx % 12) + 1
        d == IF dt.day > DaysInMonth(y, m) THEN DaysInMonth(y, m) ELSE dt.day
    IN  [dt EXCEPT !.year = y, !.month = m, !.day = d]

(***************************************************************************)
(* The system time zone (chrono's Local, jiff's TimeZone::system()).  A    *)
(* moment read at +01:00 or +02:00 is in Central European Time, which is   *)
(* +01:00 and, from 01:00 UTC on the last Sunday of March to 01:00 UTC on  *)
(* the last Sunday of October, +02:00; any other moment is in the zone of  *)
(* its own fixed offset.                                                   *)
(***************************************************************************)

CET == SECONDS_PER_HOUR
CEST == 2 * SECONDS_PER_HOUR

\* The offsets the system zone of the moment t takes.
SystemOffsets(t) == IF t.offset \in {CET, CEST} THEN {CET, CEST} ELSE {t.offset}

LastSunday(y, m) ==
    DaysInMonth(y, m) - ((WeekdayFromMonday(y, m, DaysInMonth(y, m)) + 1) % DAYS_PER_WEEK)

\* Whether summer time is in force at the UTC date-time u.
SummerTimeAt(u) ==
    LET at(dt) == (dt.month * 32 + dt.day) * SECONDS_PER_DAY + SecondOfDay(dt)
        begins == DateTime(u.year, 3, LastSunday(u.year, 3), 1, 0, 0, 0, 0)
        ends == DateTime(u.year, 10, LastSunday(u.year, 10), 1, 0, 0, 0, 0)
    IN  at(begins) <= at(u) /\ at(u) < at(ends)

\* The offset of t's system zone at the instant dt.
SystemOffsetAt(t, dt) ==
    IF SystemOffsets(t) = {t.offset} THEN t.offset
    ELSE IF SummerTimeAt(WithOffset(dt, 0)) THEN CEST ELSE CET

\* The instant dt read in t's system zone (with_timezone(&Local),
\* with_time_zone(TimeZone::system())).
ToSystemZone(t, dt) == WithOffset(dt, SystemOffsetAt(t, dt))

\* The offsets under which the wall-clock time of naive exists in t's system
\* zone: none in the hour skipped when summer time begins, two in the hour
\* repeated when it ends, one otherwise.
LocalOffsets(t, naive) ==
    {o \in SystemOffsets(t) : SystemOffsetAt(t, [naive EXCEPT !.offset = o]) = o}

(***************************************************************************)
(* Decimal text and 64-bit integers.  An i64 is held as its sign and the   *)
(* decimal digits of its magnitude, since an amount can be any i64.        *)
(***************************************************************************)

\* Option<T>: Some(v) and None.
Some(v) == <<v>>
None == <<>>
IsNone(o) == Len(o) = 0
UnwrapOr(o, default) == IF Len(o) = 0 THEN default ELSE o[1]

Drop(s, n) == SubSeq(s, n + 1, Len(s))

DigitChars == <<"0", "1", "2", "3", "4", "5", "6", "7", "8", "9">>

DigitValue(c) == (CHOOSE i \in DOMAIN DigitChars : DigitChars[i] = c) - 1

\* The number a run of ASCII digits writes.
RECURSIVE DecimalValue(_)
DecimalValue(s) ==
    IF s = <<>> THEN 0
    ELSE DecimalValue(SubSeq(s, 1, Len(s) - 1)) * 10 + DigitValue(s[Len(s)])

\* The number of leading characters of inp that lie in set, at most hi.
LeadingCount(set, inp, hi) ==
    LET top == IF Len(inp) < hi THEN Len(inp) ELSE hi
        ks == {k \in 0 .. top : \A i \in 1 .. k : inp[i] \in set}
    IN  CHOOSE k \in ks : \A j \in ks : j <= k

\* A natural number as format!("{}") writes it.
RECURSIVE FormatNumber(_)
FormatNumber(n) ==
    IF n < 10 THEN <<DigitChars[n + 1]>>
    ELSE FormatNumber(n \div 10) \o <<DigitChars[(n % 10) + 1]>>

\* A run of digits without its leading zeros ("0" for zero).
StripZeros(digits) == Drop(digits, LeadingCount({"0"}, digits, Len(digits) - 1))

\* a <= b, for two natural numbers written without leading zeros.
DigitsLessEq(a, b) ==
    \/ Len(a) < Len(b)
    \/ /\ Len(a) = Len(b)
       /\ \/ a = b
          \/ \E i \in DOMAIN a :
                /\ SubSeq(a, 1, i - 1) = SubSeq(b, 1, i - 1)
                /\ DigitValue(a[i]) < DigitValue(b[i])

\* digits * k, by long multiplication from the last digit.
RECURSIVE MulDigitsCarry(_, _, _)
MulDigitsCarry(digits, k, carry) ==
    IF digits = <<>> THEN (IF carry = 0 THEN <<>> ELSE FormatNumber(carry))
    ELSE LET p == DigitValue(digits[Len(digits)]) * k + carry
         IN  MulDigitsCarry(SubSeq(digits, 1, Len(digits) - 1), k, p \div 10)
                 \o <<DigitChars[(p % 10) + 1]>>
MulDigits(digits, k) == StripZeros(MulDigitsCarry(digits, k, 0))

\* digits mod d and digits div d, by long division from the first digit.
RECURSIVE ModDigits(_, _)
ModDigits(digits, d) ==
    IF digits = <<>> THEN 0
    ELSE (ModDigits(SubSeq(digits, 1, Len(digits) - 1), d) * 10
             + DigitValue(digits[Len(digits)])) % d
RECURSIVE DivDigitsRaw(_, _)
DivDigitsRaw(digits, d) ==
    IF digits = <<>> THEN <<>>
    ELSE LET front == SubSeq(digits, 1, Len(digits) - 1)
         IN  DivDigitsRaw(front, d)
                 \o <<DigitChars[((ModDigits(front, d) * 10
                                     + DigitValue(digits[Len(digits)])) \div d) + 1]>>
DivDigits(digits, d) == StripZeros(DivDigitsRaw(digits, d))

\* The i64 n of the model's own integers.
I64(n) == [neg |-> n < 0, digits |-> FormatNumber(IF n < 0 THEN -n ELSE n)]

\* Whether the model's integers hold the i64 a, and a as one of them.
FitsInt(a) == Len(a.digits) <= 9
AsInt(a) == IF a.neg THEN -DecimalValue(a.digits) ELSE DecimalValue(a.digits)

\* -a, and the amount a span or duration is moved by in a direction.
Negated(a) == IF a.digits = <<"0">> THEN a ELSE [a EXCEPT !.neg = ~a.neg]

\* a * k as a mathematical integer (k > 0), and |a| <= limit.
TimesSmall(a, k) == [neg |-> a.neg, digits |-> MulDigits(a.digits, k)]
MagnitudeAtMost(a, limit) == DigitsLessEq(a.digits, limit)

I64_MAX == <<"9", "2", "2", "3", "3", "7", "2", "0", "3", "6", "8", "5", "4", "7", "7", "5", "8", "0", "7">>
U32_MAX == <<"4", "2", "9", "4", "9", "6", "7", "2", "9", "5">>

\* Whether a mathematical integer lies in i64 (the one value of magnitude
\* 2^63 aside, which no amount of the model takes) and in u32.
InI64(a) == MagnitudeAtMost(a, I64_MAX)
InU32(a) == (~a.neg \/ a.digits = <<"0">>) /\ MagnitudeAtMost(a, U32_MAX)

\* str::parse::<i64> of a run of digits.
ParseI64(digits) ==
    IF DigitsLessEq(StripZeros(digits), I64_MAX)
    THEN Ok([neg |-> FALSE, digits |-> StripZeros(digits)])
    ELSE Err("ParseIntError")

(***************************************************************************)
(* TimeExpression (temps-core/src/lib.rs)                                  *)
(***************************************************************************)

ExprNow == [tag |-> "Now"]
Relative(amount, unit, direction) ==
    [tag |-> "Relative", amount |-> amount, unit |-> unit, direction |-> direction]
TzNone == [tag |-> "None", hours |-> 0, minutes |-> 0]
TzUtc == [tag |-> "Utc", hours |-> 0, minutes |-> 0]
TzOffset(hours, minutes) == [tag |-> "Offset", hours |-> hours, minutes |-> minutes]
Absolute(year, month, day, hour, minute, second, nanosecond, timezone) ==
    [tag |-> "Absolute", year |-> year, month |-> month, day |-> day,
     hour |-> hour, minute |-> minute, second |-> second,
     nanosecond |-> nanosecond, timezone |-> timezone]
DayShortcut(which) == [ref |-> which, day |-> 0, modifier |-> "None"]
WeekdayRef(day, modifier) == [ref |-> "Weekday", day |-> day, modifier |-> modifier]
Day(dayref) == [tag |-> "Day", day |-> dayref]
TimeOfDay(hour, minute, second, meridiem) ==
    [hour |-> hour, minute |-> minute, second |-> second, meridiem |-> meridiem]
Time(time) == [tag |-> "Time", time |-> time]
StandardDate(day, month, year) ==
    [tag |-> "Date", day |-> day, month |-> month, year |-> year]
DayTime(dayref, time) == [tag |-> "DayTime", day |-> dayref, time |-> time]

FixedUnits == {"Second", "Minute", "Hour", "Day", "Week"}
TimeUnits == FixedUnits \cup {"Month", "Year"}
Directions == {"Past", "Future"}

\* `x as i16` of a u16 and `x as i8` of a u8.
AsI16(x) == IF x >= 32768 THEN x - 65536 ELSE x
AsI8(x) == IF x >= 128 THEN x - 256 ELSE x


(***************************************************************************)
(* temps-chrono: ChronoProvider::parse_expression                          *)
(***************************************************************************)

\* LocalResult::single of the wall-clock time of naive in the system zone:
\* an error when that time does not exist or exists twice.
ChronoSingle(t, naive, message) ==
    LET offsets == LocalOffsets(t, naive)
    IN  IF Cardinality(offsets) = 1
        THEN Ok([naive EXCEPT !.offset = CHOOSE o \in offsets : TRUE])
        ELSE Err(AmbiguousTime(message))

\* The years NaiveDate holds.
ChronoInRange(dt) == dt.year >= -262143 /\ dt.year <= 262142

\* DateTime::checked_add_months / checked_sub_months: the day is clamped to
\* the target month and the wall-clock time kept; None when the year leaves
\* chrono's range or that local time is not single.
ChronoCheckedAddMonths(dt, n) ==
    LET r == AddMonthsClamped(dt, n)
        single == ChronoSingle(dt, r, "")
    IN  IF ChronoInRange(r) /\ single.ok
        THEN single
        ELSE Err(DateCalculation("Date calculation resulted in invalid date"))

\* The length of a fixed-length unit, as chrono::Duration builds it.
UnitSeconds(unit) ==
    CASE unit = "Second" -> 1
      [] unit = "Minute" -> SECONDS_PER_MINUTE
      [] unit = "Hour" -> SECONDS_PER_HOUR
      [] unit = "Day" -> SECONDS_PER_DAY
      [] unit = "Week" -> DAYS_PER_WEEK * SECONDS_PER_DAY

Signed(direction, n) == IF direction = "Past" THEN -n ELSE n

\* t moved by an elapsed time of the given seconds and read in the system
\* zone; None when the days moved do not fit the model's integers, which
\* lies beyond the dates of both libraries.
Elapsed(t, forward, seconds) ==
    LET days == DivDigits(seconds, SECONDS_PER_DAY)
        rest == ModDigits(seconds, SECONDS_PER_DAY)
    IN  IF Len(days) > 9 THEN None
        ELSE IF forward
        THEN Some(ToSystemZone(t, AddSeconds(AddDays(t, DecimalValue(days)), rest)))
        ELSE Some(ToSystemZone(t, AddSeconds(AddDays(t, -DecimalValue(days)), -rest)))

ChronoMonthAsThirtyDays(rel, t) ==
    Ok(AddSeconds(t, Signed(rel.direction, AsInt(rel.amount) * 30 * SECONDS_PER_DAY)))

\* checked_add_months of a month count that fits u32.
ChronoMonths(months, direction, t) ==
    IF FitsInt(months)
    THEN ChronoCheckedAddMonths(t, Signed(direction, AsInt(months)))
    ELSE Err(DateCalculation("Date calculation resulted in invalid date"))

\* Months::new takes a u32: try_into fails on a negative amount and on one
\* above u32::MAX.
ChronoMonth(rel, t) ==
    IF ~InU32(rel.amount)
    THEN Err(DateCalculation("Month amount must be a positive number"))
    ELSE ChronoMonths(rel.amount, rel.direction, t)

ChronoYearAsDays(rel, t) ==
    Ok(AddSeconds(t, Signed(rel.direction, AsInt(rel.amount) * 365 * SECONDS_PER_DAY)))

\* rel.amount.checked_mul(12), then try_into u32.
ChronoYear(rel, t) ==
    LET months_count == TimesSmall(rel.amount, MONTHS_PER_YEAR)
    IN  IF ~InI64(months_count)
        THEN Err(ArithmeticOverflow("Year calculation overflow"))
        ELSE IF ~InU32(months_count)
        THEN Err(DateCalculation("Year amount must be a positive number"))
        ELSE ChronoMonths(months_count, rel.direction, t)

\* The most seconds a TimeDelta holds: i64::MAX milliseconds.
TimeDeltaMaxSeconds == <<"9", "2", "2", "3", "3", "7", "2", "0", "3", "6", "8", "5", "4", "7", "7", "5">>

\* Duration::seconds .. Duration::weeks panic on a length no TimeDelta
\* holds; now + duration and now - duration panic on a result outside
\* chrono's dates.
ChronoFixed(rel, t) ==
    LET seconds == MulDigits(rel.amount.digits, UnitSeconds(rel.unit))
        moved == Elapsed(t, (rel.direction = "Future") = ~rel.amount.neg, seconds)
    IN  IF ~DigitsLessEq(seconds, TimeDeltaMaxSeconds)
        THEN Err(Panic("TimeDelta out of bounds"))
        ELSE IF IsNone(moved) \/ ~ChronoInRange(moved[1])
        THEN Err(Panic("DateTime + TimeDelta overflowed"))
        ELSE Ok(moved[1])

ChronoRelative(rel, t) ==
    CASE rel.unit = "Month" -> ChronoMonth(rel, t)
      [] rel.unit = "Year" -> ChronoYear(rel, t)
      [] OTHER -> ChronoFixed(rel, t)

\* NaiveTime::from_hms_nano_opt
ChronoValidTime(hour, minute, second, nano) ==
    /\ hour < 24 /\ minute < 60 /\ second < 60
    /\ ~(nano >= 1000000000 /\ second # 59)
    /\ nano < 2000000000

OrZero(x) == IF x = NoneU THEN 0 ELSE x

ChronoAbsolute(abs, t) ==
    IF ~IsValidDate(abs.year, abs.month, abs.day)
    THEN Err(InvalidDate(abs.year, abs.month, abs.day))
    ELSE IF abs.hour # NoneU /\ abs.minute # NoneU
    THEN IF ~ChronoValidTime(abs.hour, abs.minute, OrZero(abs.second), OrZero(abs.nanosecond))
         THEN Err(InvalidTime(abs.hour, abs.minute, OrZero(abs.second)))
         ELSE LET naive_dt(off) ==
                      DateTime(abs.year, abs.month, abs.day, abs.hour, abs.minute,
                               OrZero(abs.second), OrZero(abs.nanosecond), off)
              IN  CASE abs.timezone.tag = "Utc" -> Ok(ToSystemZone(t, naive_dt(0)))
                    [] abs.timezone.tag = "Offset" ->
                         LET offset_seconds ==
                                 CalculateTimezoneOffsetSeconds(abs.timezone.hours,
                                                                abs.timezone.minutes)
                         IN  \* FixedOffset::east_opt
                             IF offset_seconds <= -SECONDS_PER_DAY
                                \/ offset_seconds >= SECONDS_PER_DAY
                             THEN Err(InvalidTimezoneOffset(abs.timezone.hours,
                                                            abs.timezone.minutes))
                             ELSE Ok(ToSystemZone(t, naive_dt(offset_seconds)))
                    [] OTHER -> ChronoSingle(t, naive_dt(t.offset),
                                             "Ambiguous or invalid local time")
    ELSE ChronoSingle(t, AtMidnight(abs, t.offset), "Ambiguous or invalid local time")

\* date_naive().and_hms_opt(0, 0, 0) of a moment, then and_local_timezone.
ChronoMidnight(dt, t) ==
    ChronoSingle(t, AtMidnight(dt, t.offset), "Ambiguous or invalid local time")

\* now + Duration::days(n): n times 24 hours of elapsed time.
ChronoPlusDays(t, n) == ToSystemZone(t, AddSeconds(t, n * SECONDS_PER_DAY))

ChronoDay(dayref, t) ==
    CASE dayref.ref = "Today" -> ChronoMidnight(t, t)
      [] dayref.ref = "Yesterday" -> ChronoMidnight(ChronoPlusDays(t, -1), t)
      [] dayref.ref = "Tomorrow" -> ChronoMidnight(ChronoPlusDays(t, 1), t)
      [] OTHER ->
           LET current_offset == WeekdayFromMonday(t.year, t.month, t.day)
               days_to_add == CalculateWeekdayOffset(current_offset, dayref.day, dayref.modifier)
           IN  ChronoMidnight(ChronoPlusDays(t, days_to_add), t)

\* NaiveDate::and_hms_opt, then and_local_timezone(Local).single()
ChronoAndHms(date, time, t) ==
    LET hour == Convert12To24Hour(time.hour, time.meridiem)
    IN  IF hour < 24 /\ time.minute < 60 /\ time.second < 60
        THEN ChronoSingle(t, DateTime(date.year, date.month, date.day, hour, time.minute,
                                      time.second, 0, t.offset),
                          "Ambiguous local time")
        ELSE Err(InvalidTime(time.hour, time.minute, time.second))

\* The Time arm if it took the date of the day after now.
ChronoTimeOnNextDay(time, t) == ChronoAndHms(AddDays(t, 1), time, t)

ChronoTime(time, t) == ChronoAndHms(t, time, t)

ChronoDayTimeOnNowDate(dt, t) == ChronoAndHms(t, dt.time, t)

ChronoDayTime(dt, t) ==
    LET day_result == ChronoDay(dt.day, t)
    IN  IF day_result.ok THEN ChronoAndHms(day_result.value, dt.time, t) ELSE day_result

ChronoDate(date, t) ==
    IF IsValidDate(date.year, date.month, date.day)
    THEN ChronoSingle(t, AtMidnight(date, t.offset), "Ambiguous local time")
    ELSE Err(InvalidDate(date.year, date.month, date.day))

ChronoParseExpression(e, t) ==
    CASE e.tag = "Now" -> Ok(t)
      [] e.tag = "Relative" -> ChronoRelative(e, t)
      [] e.tag = "Absolute" -> ChronoAbsolute(e, t)
      [] e.tag = "Day" -> ChronoDay(e.day, t)
      [] e.tag = "Time" -> ChronoTime(e.time, t)
      [] e.tag = "DayTime" -> ChronoDayTime(e, t)
      [] e.tag = "Date" -> ChronoDate(e, t)

(***************************************************************************)
(* temps-jiff: JiffProvider::parse_expression                              *)
(***************************************************************************)

\* The largest magnitude Span::new().<unit>(n) takes; beyond it the
\* builder panics.
JiffSpanLimit(unit) ==
    CASE unit = "Year" -> <<"1", "9", "9", "9", "8">>
      [] unit = "Month" -> <<"2", "3", "9", "9", "7", "6">>
      [] unit = "Week" -> <<"1", "0", "4", "3", "4", "9", "7">>
      [] unit = "Day" -> <<"7", "3", "0", "4", "4", "8", "4">>
      [] unit = "Hour" -> <<"1", "7", "5", "3", "0", "7", "6", "1", "6">>
      [] unit = "Minute" -> <<"1", "0", "5", "1", "8", "4", "5", "6", "9", "6", "0">>
      [] unit = "Second" -> <<"6", "3", "1", "1", "0", "7", "4", "1", "7", "6", "0", "0">>

JiffSpanFits(unit, amount) == MagnitudeAtMost(amount, JiffSpanLimit(unit))

JiffInRange(dt) == dt.year >= -9999 /\ dt.year <= 9999

\* civil::DateTime::to_zoned: a wall-clock time that the zone skips is moved
\* on by the length of the gap, one that exists twice is read as the earlier.
JiffToZoned(t, naive) ==
    LET offsets == LocalOffsets(t, naive)
        earliest == CHOOSE o \in SystemOffsets(t) : \A p \in SystemOffsets(t) : o <= p
    IN  IF offsets = {}
        THEN ToSystemZone(t, [naive EXCEPT !.offset = earliest])
        ELSE [naive EXCEPT !.offset = CHOOSE o \in offsets : \A p \in offsets : p <= o]

\* The civil or elapsed sum of checked_add before its range check; None
\* where the elapsed sum leaves the representable range.
JiffSum(t, unit, amount, n) ==
    CASE unit = "Year" -> Some(AddMonthsClamped(t, MONTHS_PER_YEAR * n))
      [] unit = "Month" -> Some(AddMonthsClamped(t, n))
      [] unit = "Week" -> Some(AddDays(t, DAYS_PER_WEEK * n))
      [] unit = "Day" -> Some(AddDays(t, n))
      [] OTHER -> Elapsed(t, ~amount.neg, MulDigits(amount.digits, UnitSeconds(unit)))

\* The range check of checked_add and the return to the zone: a civil sum
\* is read in the zone again, an elapsed one and a span of zero are not.
JiffSumInZone(t, unit, amount, r) ==
    IF IsNone(r) \/ ~JiffInRange(r[1])
    THEN Err(DateCalculation("Date calculation error"))
    ELSE IF unit \in {"Year", "Month", "Week", "Day"} /\ amount.digits # <<"0">>
    THEN Ok(JiffToZoned(t, r[1]))
    ELSE Ok(r[1])

\* Zoned::checked_add of a span of one unit: days and larger units move the
\* civil date (the day constrained to the target month) and keep the
\* wall-clock time, the others and a span of zero move by elapsed time.
JiffCheckedAdd(t, unit, amount) ==
    JiffSumInZone(t, unit, amount, JiffSum(t, unit, amount, AsInt(amount)))

JiffRelative(rel, t) ==
    IF ~JiffSpanFits(rel.unit, rel.amount)
    THEN Err(Panic("Span out of range"))
    ELSE JiffCheckedAdd(t, rel.unit,
                        IF rel.direction = "Past" THEN Negated(rel.amount) ELSE rel.amount)

\* civil::Date::new(year as i16, month as i8, day as i8)
JiffValidDate(year, month, day) ==
    /\ AsI16(year) >= -9999 /\ AsI16(year) <= 9999
    /\ IsValidDate(AsI16(year), AsI8(month), AsI8(day))

\* The civil date Date::new(year as i16, month as i8, day as i8) holds.
JiffCivilDate(year, month, day) ==
    [year |-> AsI16(year), month |-> AsI8(month), day |-> AsI8(day)]

JiffAbsolute(abs, t) ==
    IF ~JiffValidDate(abs.year, abs.month, abs.day)
    THEN Err(BackendError("jiff"))
    ELSE IF abs.hour # NoneU /\ abs.minute # NoneU
    THEN IF abs.hour > 23 \/ abs.minute > 59
         THEN Err(InvalidTime(abs.hour, abs.minute, OrZero(abs.second)))
         ELSE IF abs.second # NoneU /\ abs.second > 59
         THEN Err(InvalidTime(abs.hour, abs.minute, abs.second))
         ELSE IF OrZero(abs.nanosecond) > 999999999
         THEN Err(BackendError("jiff"))
         ELSE LET datetime(off) ==
                      DateTime(AsI16(abs.year), AsI8(abs.month), AsI8(abs.day), abs.hour,
                               abs.minute, OrZero(abs.second), OrZero(abs.nanosecond), off)
              IN  CASE abs.timezone.tag = "Utc" -> Ok(ToSystemZone(t, datetime(0)))
                    [] abs.timezone.tag = "Offset" ->
                         LET total_seconds ==
                                 CalculateTimezoneOffsetSeconds(abs.timezone.hours,
                                                                abs.timezone.minutes)
                         IN  \* tz::Offset::from_seconds: -25:59:59 ..= 25:59:59
                             IF total_seconds < -93599 \/ total_seconds > 93599
                             THEN Err(InvalidTimezoneOffset(abs.timezone.hours,
                                                            abs.timezone.minutes))
                             ELSE Ok(ToSystemZone(t, datetime(total_seconds)))
                    [] OTHER -> Ok(JiffToZoned(t, datetime(t.offset)))
    ELSE Ok(JiffToZoned(t, AtMidnight(JiffCivilDate(abs.year, abs.month, abs.day), t.offset)))

\* The number of days from today to the day a reference names.
JiffDayOffset(dayref, t) ==
    CASE dayref.ref = "Today" -> 0
      [] dayref.ref = "Yesterday" -> -1
      [] dayref.ref = "Tomorrow" -> 1
      [] OTHER -> CalculateWeekdayOffset(WeekdayFromMonday(t.year, t.month, t.day),
                                         dayref.day, dayref.modifier)

\* target.date().at(0, 0, 0, 0).to_zoned(time_zone) of a computed day
JiffMidnight(target, t) ==
    IF target.ok THEN Ok(JiffToZoned(t, AtMidnight(target.value, t.offset))) ELSE target

JiffDay(dayref, t) ==
    JiffMidnight(JiffCheckedAdd(t, "Day", I64(JiffDayOffset(dayref, t))), t)

JiffAt(date, time, t) ==
    LET hour == Convert12To24Hour(time.hour, time.meridiem)
    IN  IF hour > 23 \/ time.minute > 59 \/ time.second > 59
        THEN Err(InvalidTime(hour, time.minute, time.second))
        ELSE Ok(JiffToZoned(t, DateTime(date.year, date.month, date.day, hour, time.minute,
                                        time.second, 0, t.offset)))

JiffTime(time, t) == JiffAt(t, time, t)

\* The time of a DayTime set on the date its day resolved to.
JiffOnDay(day_result, time, t) ==
    IF day_result.ok THEN JiffAt(day_result.value, time, t) ELSE day_result

JiffDayTime(dt, t) == JiffOnDay(JiffDay(dt.day, t), dt.time, t)

JiffDate(date, t) ==
    IF JiffValidDate(date.year, date.month, date.day)
    THEN Ok(JiffToZoned(t, AtMidnight(JiffCivilDate(date.year, date.month, date.day),
                                      t.offset)))
    ELSE Err(InvalidDate(date.year, date.month, date.day))

JiffParseExpression(e, t) ==
    CASE e.tag = "Now" -> Ok(t)
      [] e.tag = "Relative" -> JiffRelative(e, t)
      [] e.tag = "Absolute" -> JiffAbsolute(e, t)
      [] e.tag = "Day" -> JiffDay(e.day, t)
      [] e.tag = "Time" -> JiffTime(e.time, t)
      [] e.tag = "DayTime" -> JiffDayTime(e, t)
      [] e.tag = "Date" -> JiffDate(e, t)

ParseExpression(b, e, t) ==
    IF b = "chrono" THEN ChronoParseExpression(e, t) ELSE JiffParseExpression(e, t)

(***************************************************************************)
(* The helpers called directly, on every weekday pair and every hour a     *)
(* grammar can produce.                                                    *)
(***************************************************************************)

WeekdayIndices == 0 .. (DAYS_PER_WEEK - 1)

InitUtils ==
    /\ util = Idle
    /\ input = <<>>
    /\ language = "English"
    /\ parsed = Idle
    /\ now = Idle
    /\ backend = "chrono"
    /\ expr = Idle
    /\ resolved = Idle

CallCalculateWeekdayOffset ==
    /\ \E c \in WeekdayIndices, t \in WeekdayIndices, m \in Modifiers :
          util' = [fn |-> "calculate_weekday_offset",
                   args |-> [current |-> c, target |-> t, modifier |-> m],
                   ret |-> CalculateWeekdayOffset(c, t, m)]
    /\ UNCHANGED <<input, language, parsed, now, backend, expr, resolved>>

CallConvert12To24Hour ==
    /\ \E h \in 0 .. MaxTwoDigit, m \in Meridiems :
          util' = [fn |-> "convert_12_to_24_hour",
                   args |-> [hour |-> h, meridiem |-> m],
                   ret |-> Convert12To24Hour(h, m)]
    /\ UNCHANGED <<input, language, parsed, now, backend, expr, resolved>>

NextUtils ==
    \/ CallCalculateWeekdayOffset
    \/ CallConvert12To24Hour

SpecUtils == InitUtils /\ [][NextUtils]_vars

IsWeekdayCall == util.fn = "calculate_weekday_offset"
IsConvertCall == util.fn = "convert_12_to_24_hour"

\* C1: calculate_weekday_offset returns an offset in [0,6] without a
\* modifier, in [1,7] with Next and in [-7,-1] with Last, for all 7 current
\* and all 7 target weekdays.
C1_WeekdayOffsetRange ==
    (util # Idle /\ IsWeekdayCall) =>
        CASE util.args.modifier = "None" -> util.ret \in 0 .. 6
          [] util.args.modifier = "Next" -> util.ret \in 1 .. 7
          [] util.args.modifier = "Last" -> util.ret \in (-7) .. (-1)

\* "next <weekday>" asked on that weekday: seven days later.
C1_Witness ==
    /\ util # Idle
    /\ IsWeekdayCall
    /\ util.args.current = util.args.target
    /\ util.args.modifier = "Next"
    /\ util.ret = 7

\* C2: with diff = target - current, no modifier gives diff if diff >= 0
\* else diff + 7; Next gives diff if diff > 0 else diff + 7; Last gives diff
\* if diff < 0 else diff - 7.  On the named weekday itself a bare name is
\* today (0), "next" is 7 days later and "last" is 7 days earlier.
C2_WeekdayOffsetFormula ==
    (util # Idle /\ IsWeekdayCall) =>
        LET diff == util.args.target - util.args.current
            m == util.args.modifier
        IN  /\ (m = "None" /\ diff >= 0) => util.ret = diff
            /\ (m = "None" /\ diff < 0) => util.ret = diff + 7
            /\ (m = "Next" /\ diff > 0) => util.ret = diff
            /\ (m = "Next" /\ diff <= 0) => util.ret = diff + 7
            /\ (m = "Last" /\ diff < 0) => util.ret = diff
            /\ (m = "Last" /\ diff >= 0) => util.ret = diff - 7
            /\ (diff = 0) => util.ret = (CASE m = "None" -> 0
                                           [] m = "Next" -> 7
                                           [] m = "Last" -> -7)

\* "last <weekday>" asked on that weekday: seven days earlier.
C2_Witness ==
    /\ util # Idle
    /\ IsWeekdayCall
    /\ util.args.current = util.args.target
    /\ util.args.modifier = "Last"
    /\ util.ret = -7

\* C3: convert(12, AM) = 0, convert(12, PM) = 12, convert(h, PM) = h + 12
\* and convert(h, AM) = h for h # 12, convert(h, None) = h.
C3_Convert12To24 ==
    (util # Idle /\ IsConvertCall) =>
        LET h == util.args.hour
            m == util.args.meridiem
        IN  /\ (h = 12 /\ m = "AM") => util.ret = 0
            /\ (h = 12 /\ m = "PM") => util.ret = 12
            /\ (h # 12 /\ m = "PM") => util.ret = h + 12
            /\ (h # 12 /\ m = "AM") => util.ret = h
            /\ (m = "None") => util.ret = h

\* Midnight written as 12 AM.
C3_Witness ==
    /\ util # Idle
    /\ IsConvertCall
    /\ util.args.hour = 12
    /\ util.args.meridiem = "AM"
    /\ util.ret = 0


(***************************************************************************)
(* parse_expression called on a TimeExpression, with now() mocked as in    *)
(* the test suites (MockTimeSource).  The system zone is a fixed offset.   *)
(***************************************************************************)

\* The largest amount of a Relative expression resolved here.
MaxAmount == 13

Backends == {"chrono", "jiff"}

NowYears == {2023, 2024}
NowDays == {1, 28, 29, 30, 31}

\* Every valid date of NowYears on NowDays, at 10:00:00 in UTC.
Nows ==
    {DateTime(y, m, d, 10, 0, 0, 0, 0) :
        <<y, m, d>> \in {x \in NowYears \X (1 .. 12) \X NowDays : IsValidDate(x[1], x[2], x[3])}}

\* Two moments in zones east and west of UTC, late and early in the day.
ZonedNows ==
    {DateTime(2024, 3, 15, 23, 30, 0, 0, SECONDS_PER_HOUR),
     DateTime(2023, 12, 31, 0, 30, 0, 0, -5 * SECONDS_PER_HOUR)}

\* Moments in Central European Time around the two transitions of 2024: the
\* day before, the day of and the day after the 23-hour day (March 31) and
\* the 25-hour day (October 27), and the hour of October 27 that comes twice.
TransitionNows ==
    {DateTime(2024, 3, 30, 23, 30, 0, 0, CET), DateTime(2024, 3, 31, 0, 30, 0, 0, CET),
     DateTime(2024, 3, 31, 12, 0, 0, 0, CEST), DateTime(2024, 4, 1, 0, 30, 0, 0, CEST),
     DateTime(2024, 10, 26, 23, 30, 0, 0, CEST), DateTime(2024, 10, 27, 0, 30, 0, 0, CEST),
     DateTime(2024, 10, 27, 2, 30, 0, 0, CEST), DateTime(2024, 10, 27, 2, 30, 0, 0, CET),
     DateTime(2024, 10, 27, 23, 30, 0, 0, CET), DateTime(2024, 10, 28, 0, 30, 0, 0, CET)}

RelativeExprs ==
    {Relative(I64(n), u, d) : n \in (-1) .. MaxAmount, u \in TimeUnits, d \in Directions}

\* Amounts at the limits of the two libraries and of i64: the most years a
\* jiff span takes and the first it refuses, the last amount of years whose
\* months fit i64 and the first that do not, the most seconds a chrono
\* TimeDelta takes and the first it refuses, a length within TimeDelta that
\* leaves chrono's dates, and i64::MAX.
WideAmounts ==
    {[neg |-> FALSE, digits |-> d] :
        d \in {<<"1", "9", "9", "9", "8">>, <<"2", "0", "0", "0", "0">>, <<"7", "6", "8", "6", "1", "4", "3", "3", "6", "4", "0", "4", "5", "6", "4", "6", "5", "0">>, <<"7", "6", "8", "6", "1", "4", "3", "3", "6", "4", "0", "4", "5", "6", "4", "6", "5", "1">>,
               <<"1", "0", "0", "0", "0", "0", "0", "0", "0", "0", "0", "0", "0", "0">>, <<"9", "2", "2", "3", "3", "7", "2", "0", "3", "6", "8", "5", "4", "7", "7", "5">>, <<"9", "2", "2", "3", "3", "7", "2", "0", "3", "6", "8", "5", "4", "7", "7", "6">>, I64_MAX}}

WideRelativeExprs ==
    {Relative(a, u, d) : a \in WideAmounts, u \in TimeUnits, d \in Directions}

\* (hour, minute, second, nanosecond) as parse_iso_datetime can fill them.
AbsoluteTimeParts ==
    {<<NoneU, NoneU, NoneU, NoneU>>, <<0, 0, NoneU, NoneU>>, <<23, 59, 59, NoneU>>,
     <<14, 30, 0, 123000000>>, <<24, 0, 0, NoneU>>, <<25, 30, NoneU, NoneU>>,
     <<12, 60, 0, NoneU>>, <<12, 30, 60, NoneU>>, <<99, 99, 99, 0>>}

AbsoluteTimezones == {TzNone, TzUtc, TzOffset(2, 0), TzOffset(-5, 30)}

AbsoluteExprs ==
    {Absolute(y, m, d, tp[1], tp[2], tp[3], tp[4], IF tp[1] = NoneU THEN TzNone ELSE tz) :
        y \in NowYears, m \in {0, 1, 2, 12, 13}, d \in {0, 1, 28, 29, 30, 31, 32},
        tp \in AbsoluteTimeParts, tz \in AbsoluteTimezones}

DayRefs ==
    {DayShortcut(w) : w \in {"Today", "Yesterday", "Tomorrow"}}
        \cup {WeekdayRef(d, m) : d \in WeekdayIndices, m \in Modifiers}

TimesOfDay ==
    {TimeOfDay(h, mi, s, me) :
        h \in {0, 1, 11, 12, 13, 23, 24, 25, MaxTwoDigit}, mi \in {0, 59, 60},
        s \in {0, 60}, me \in Meridiems}

\* Times put on a day: an afternoon and a midnight of the 12-hour clock, a
\* time the 23-hour day skips and the 25-hour day has twice, times that do
\* not exist, and hours that the 12-hour clock does not have.
DayTimeTimes ==
    {TimeOfDay(3, 30, 0, "PM"), TimeOfDay(12, 0, 0, "AM"), TimeOfDay(2, 30, 0, "None"),
     TimeOfDay(25, 0, 0, "None"), TimeOfDay(15, 30, 60, "None"),
     TimeOfDay(13, 0, 0, "AM"), TimeOfDay(0, 30, 0, "PM"), TimeOfDay(13, 0, 0, "PM")}

DayTimeExprs == {DayTime(r, t) : r \in DayRefs, t \in DayTimeTimes}

DateExprs ==
    {StandardDate(d, m, y) :
        d \in {0, 1, 28, 29, 30, 31, 32}, m \in {0, 1, 2, 4, 12, 13}, y \in NowYears}

\* Dates of the last year of four digits and of years beyond it, up to the
\* last year a u16 holds, as Date and as Absolute without a time.
WideYears == {9999, 10000, 32768, 65535}

WideDateExprs ==
    UNION {{StandardDate(md[2], md[1], y),
            Absolute(y, md[1], md[2], NoneU, NoneU, NoneU, NoneU, TzNone)} :
              <<y, md>> \in WideYears \X {<<1, 1>>, <<2, 29>>, <<12, 31>>}}

\* The moments of ZonedNows whose system zone keeps one offset.
FixedZoneNows == {t \in ZonedNows : SystemOffsets(t) = {t.offset}}

\* One date and time under offsets within and beyond -12..=14 hours and
\* 0..=59 minutes, up to the ends of i8 and u8.
OffsetHours == {-128, -27, -26, -24, -23, -13, -12, 0, 14, 15, 23, 24, 25, 26, 127}
OffsetMinutes == {0, 30, 59, 60, 99, 255}

OffsetExprs ==
    {Absolute(2024, 1, 15, 14, 30, 0, NoneU, TzOffset(h, m)) :
        h \in OffsetHours, m \in OffsetMinutes}

\* The (now, expression) pairs resolved.
ResolveCases ==
    (Nows \X RelativeExprs)
        \cup (ZonedNows \X WideRelativeExprs)
        \cup (TransitionNows \X {e \in RelativeExprs : e.unit \in FixedUnits})
        \cup (ZonedNows \X AbsoluteExprs)
        \cup (ZonedNows \X OffsetExprs)
        \cup ((Nows \cup TransitionNows) \X {Day(r) : r \in DayRefs})
        \cup (ZonedNows \X {Time(t) : t \in TimesOfDay})
        \cup (TransitionNows \X {Time(t) : t \in DayTimeTimes})
        \cup ((ZonedNows \cup TransitionNows) \X DayTimeExprs)
        \cup (ZonedNows \X DateExprs)
        \cup (FixedZoneNows \X WideDateExprs)
        \cup (ZonedNows \X {ExprNow})

\* A provider, a mocked now() and an expression; nothing resolved yet.
InitResolve ==
    /\ util = Idle
    /\ input = <<>>
    /\ language = "English"
    /\ parsed = Idle
    /\ backend \in Backends
    /\ \E c \in ResolveCases : now = c[1] /\ expr = c[2]
    /\ resolved = Idle

ResolveChrono ==
    /\ backend = "chrono"
    /\ resolved = Idle
    /\ resolved' = ChronoParseExpression(expr, now)
    /\ UNCHANGED <<util, input, language, parsed, now, backend, expr>>

ResolveJiff ==
    /\ backend = "jiff"
    /\ resolved = Idle
    /\ resolved' = JiffParseExpression(expr, now)
    /\ UNCHANGED <<util, input, language, parsed, now, backend, expr>>

NextResolve ==
    \/ ResolveChrono
    \/ ResolveJiff

SpecResolve == InitResolve /\ [][NextResolve]_vars

Min(a, b) == IF a <= b THEN a ELSE b

Resolved == resolved # Idle

IsRelative(unit) == Resolved /\ expr.tag = "Relative" /\ expr.unit = unit

C5_YearClamp ==
    /\ IsRelative("Year") =>
          LET byMonths == ParseExpression(backend,
                              Relative(TimesSmall(expr.amount, 12), "Month", expr.direction), now)
          IN  /\ resolved.ok = byMonths.ok
              /\ resolved.ok => resolved.value = byMonths.value
    /\ (IsRelative("Year") /\ resolved.ok) =>
          LET r == resolved.value
          IN  /\ r.year = now.year + Signed(expr.direction, AsInt(expr.amount))
              /\ r.month = now.month
              /\ r.day = Min(now.day, DaysInMonth(r.year, r.month))
    /\ (IsRelative("Year") /\ expr.amount = I64(1) /\ expr.direction = "Future"
            /\ now.month = 2 /\ now.day = 29) =>
          /\ resolved.ok
          /\ resolved.value.year = now.year + 1
          /\ resolved.value.month = 2
          /\ resolved.value.day = 28

\* "in 1 year" on 2024-02-29 resolved by chrono: 2025-02-28.
C5_Witness ==
    /\ IsRelative("Year")
    /\ backend = "chrono"
    /\ expr.amount = I64(1) /\ expr.direction = "Future"
    /\ now.year = 2024 /\ now.month = 2 /\ now.day = 29
    /\ resolved.ok
    /\ resolved.value.year = 2025 /\ resolved.value.month = 2 /\ resolved.value.day = 28


IsAbsolute == Resolved /\ expr.tag = "Absolute"

\* C10: on both backends an Absolute whose (year, month, day) is not a
\* valid Gregorian date fails with InvalidDate{year, month, day}, and one
\* with a valid date but hour > 23, minute > 59 or second > 59 fails with
\* InvalidTime{hour, minute, second}.
C10_AbsoluteErrors ==
    IsAbsolute =>
        /\ ~IsValidDate(expr.year, expr.month, expr.day) =>
              resolved = Err(InvalidDate(expr.year, expr.month, expr.day))
        /\ (/\ IsValidDate(expr.year, expr.month, expr.day)
            /\ expr.hour # NoneU
            /\ (expr.hour > 23 \/ expr.minute > 59 \/ OrZero(expr.second) > 59)) =>
              resolved = Err(InvalidTime(expr.hour, expr.minute, OrZero(expr.second)))

\* The half of C10 the chrono provider keeps.
C10_ChronoOnly == (backend = "chrono") => C10_AbsoluteErrors

(***************************************************************************)
(* Text and winnow.  A parser is a value naming a combinator and its       *)
(* parts; Run applies it to the remaining input and returns ok with a      *)
(* value and the input left, or a backtrack error with the input where it  *)
(* stopped.                                                                *)
(***************************************************************************)

Matched(v, rest) == [ok |-> TRUE, value |-> v, rest |-> rest]
Backtrack(rest) == [ok |-> FALSE, rest |-> rest]

UpperLetters == <<"A", "B", "C", "D", "E", "F", "G", "H", "I", "J", "K", "L", "M", "N", "O", "P", "Q", "R", "S", "T", "U", "V", "W", "X", "Y", "Z">>
LowerLetters == <<"a", "b", "c", "d", "e", "f", "g", "h", "i", "j", "k", "l", "m", "n", "o", "p", "q", "r", "s", "t", "u", "v", "w", "x", "y", "z">>

\* char::to_ascii_lowercase and to_ascii_uppercase: letters outside ASCII
\* are left alone.
AsciiLowercase ==
    [c \in {UpperLetters[i] : i \in DOMAIN UpperLetters} |->
        LowerLetters[CHOOSE i \in DOMAIN UpperLetters : UpperLetters[i] = c]]
AsciiUppercase ==
    [c \in {LowerLetters[i] : i \in DOMAIN LowerLetters} |->
        UpperLetters[CHOOSE i \in DOMAIN LowerLetters : LowerLetters[i] = c]]
ToAsciiLowercase(c) == IF c \in DOMAIN AsciiLowercase THEN AsciiLowercase[c] ELSE c
ToAsciiUppercase(c) == IF c \in DOMAIN AsciiUppercase THEN AsciiUppercase[c] ELSE c
LowerText(s) == [i \in 1 .. Len(s) |-> ToAsciiLowercase(s[i])]
UpperText(s) == [i \in 1 .. Len(s) |-> ToAsciiUppercase(s[i])]

\* The length of a character in UTF-8.
LenUtf8(c) == IF c \in {"auml", "ouml", "uuml", "szlig"} THEN 2 ELSE 1

RECURSIVE ByteLen(_)
ByteLen(s) == IF s = <<>> THEN 0 ELSE LenUtf8(Head(s)) + ByteLen(Tail(s))

\* The characters of multispace, of take_while(.., ' '), of
\* char::is_ascii_digit and of char::is_ascii_whitespace.
MultispaceChars == {" ", "\t", "\r", "\n"}
SpaceChars == {" "}
AsciiDigits == {DigitChars[i] : i \in DOMAIN DigitChars}
AsciiWhitespace == {" ", "\t", "\r", "\n", "\f"}

\* A string literal used as a parser: an exact, case-sensitive match.
Literal(lit, inp) ==
    IF Len(inp) >= Len(lit) /\ SubSeq(inp, 1, Len(lit)) = lit
    THEN Matched(lit, Drop(inp, Len(lit)))
    ELSE Backtrack(inp)

\* Caseless with the folding of case left out.
CaselessExact(lit, inp) ==
    IF Len(inp) >= Len(lit) /\ SubSeq(inp, 1, Len(lit)) = lit
    THEN Matched(SubSeq(inp, 1, Len(lit)), Drop(inp, Len(lit)))
    ELSE Backtrack(inp)

\* winnow::ascii::Caseless: the match ignores ASCII case.
Caseless(lit, inp) ==
    IF Len(inp) >= Len(lit) /\ LowerText(SubSeq(inp, 1, Len(lit))) = LowerText(lit)
    THEN Matched(SubSeq(inp, 1, Len(lit)), Drop(inp, Len(lit)))
    ELSE Backtrack(inp)

\* take_while(lo..=hi, set): the longest run, an error below lo characters.
TakeWhile(lo, hi, set, inp) ==
    LET n == LeadingCount(set, inp, hi)
    IN  IF n < lo THEN Backtrack(inp) ELSE Matched(SubSeq(inp, 1, n), Drop(inp, n))

\* one_of: one character of the set.
OneOf(set, inp) ==
    IF inp # <<>> /\ inp[1] \in set THEN Matched(inp[1], Tail(inp)) ELSE Backtrack(inp)

\* The parsers as values.  A range without an upper end has hi = NoneU.
PLiteral(lit) == [op |-> "literal", lit |-> lit]
PCaseless(lit) == [op |-> "Caseless", lit |-> lit]
PTakeWhile(lo, hi, set) == [op |-> "take_while", lo |-> lo, hi |-> hi, set |-> set]
POneOf(set) == [op |-> "one_of", set |-> set]
PValue(p, v) == [op |-> "value", of |-> p, value |-> v]
PMap(p, by) == [op |-> "map", of |-> p, by |-> by]
PTryMap(p, by) == [op |-> "try_map", of |-> p, by |-> by]
PTuple(items) == [op |-> "tuple", items |-> items]
PAlt(items) == [op |-> "alt", items |-> items]
POpt(p) == [op |-> "opt", of |-> p]
PPreceded(first, second) == [op |-> "preceded", first |-> first, second |-> second]

Multispace0 == PTakeWhile(0, NoneU, MultispaceChars)
Multispace1 == PTakeWhile(1, NoneU, MultispaceChars)
Spaces0 == PTakeWhile(0, NoneU, SpaceChars)
Spaces1 == PTakeWhile(1, NoneU, SpaceChars)
Digit1 == PTakeWhile(1, NoneU, AsciiDigits)

(***************************************************************************)
(* The closures the grammars hand to map and try_map.                      *)
(***************************************************************************)

\* The fraction of a second read as a count of nanoseconds, unscaled.
NanosUnscaled(digits) ==
    DecimalValue(IF Len(digits) > 9 THEN SubSeq(digits, 1, 9) ELSE digits)

\* The fraction of a second: at most nine digits are read, scaled to
\* nanoseconds.
NanosFromFraction(digits) ==
    LET fraction == IF Len(digits) > 9 THEN SubSeq(digits, 1, 9) ELSE digits
        Pow10[k \in 0 .. 9] == IF k = 0 THEN 1 ELSE 10 * Pow10[k - 1]
    IN  DecimalValue(fraction) * Pow10[9 - Len(fraction)]

\* str::parse::<u8> refusing a value no clock field can take.
ParseU8InRange(digits) ==
    IF DecimalValue(digits) < 60 THEN Ok(DecimalValue(digits)) ELSE Err("ParseIntError")

\* str::parse::<u8> of one or two digits: the value always fits.
ParseU8(digits) == Ok(DecimalValue(digits))

\* The conversions given to try_map.  Four digits fit u16.
TryMapBy(by, digits) ==
    CASE by = "parse::<i64>" -> ParseI64(digits)
      [] by = "parse::<u8>" -> ParseU8(digits)
      [] by = "parse::<u16>" -> Ok(DecimalValue(digits))
      [] by = "nanoseconds" -> Ok(NanosFromFraction(digits))

\* What parse_iso_datetime builds from (year, '-', month, '-', day, time).
IsoDatetimeOf(v) ==
    LET time == v[6]
        t == time[1]
        seconds == t[5]
        fraction == seconds[1][3]
    IN  IF IsNone(time)
        THEN Absolute(v[1], v[3], v[5], NoneU, NoneU, NoneU, NoneU, TzNone)
        ELSE Absolute(v[1], v[3], v[5], t[2], t[4],
                      IF IsNone(seconds) THEN NoneU ELSE seconds[1][2],
                      IF IsNone(seconds) \/ IsNone(fraction) THEN NoneU ELSE fraction[1][2],
                      UnwrapOr(t[6], TzNone))

\* What parse_offset_timezone builds from (sign, hours, opt((':', minutes))):
\* the sign goes to the hours alone.
OffsetTimezoneOf(v) ==
    TzOffset(IF v[1] = "+" THEN AsI8(v[2]) ELSE -AsI8(v[2]),
             IF IsNone(v[3]) THEN 0 ELSE v[3][1][2])

\* The closures given to map, by the expression they build.
MapBy(by, v) ==
    CASE by = "RelativePast" -> Relative(v[1], v[3], "Past")
      [] by = "RelativeFuture" -> Relative(v[1], v[3], "Future")
      [] by = "ModifiedWeekday" -> WeekdayRef(v[3], v[1])
      [] by = "SimpleWeekday" -> WeekdayRef(v, "None")
      [] by = "Day" -> Day(v)
      [] by = "EnglishTimeDigits" ->
            TimeOfDay(v[1], v[3], UnwrapOr(v[4], 0), UnwrapOr(v[5], "None"))
      [] by = "GermanTimeDigits" -> TimeOfDay(v[1], v[3], UnwrapOr(v[4], 0), "None")
      [] by = "EnglishTime" -> Time(v)
      [] by = "GermanTime" -> Time(v[1])
      [] by = "EnglishDayTime" -> DayTime(v[1], v[2])
      [] by = "GermanDayTime" -> DayTime(v[1], v[5])
      [] by = "DateYmd" -> StandardDate(v[5], v[3], v[1])
      [] by = "DateDmy" -> StandardDate(v[1], v[3], v[5])
      [] by = "OffsetTimezone" -> OffsetTimezoneOf(v)
      [] by = "IsoDatetime" -> IsoDatetimeOf(v)

(***************************************************************************)
(* Running a parser: tuples run their parts in turn and stop at the first  *)
(* that fails; alt restarts each alternative where it began and, when the  *)
(* last one fails, leaves the input where that one stopped; opt and a      *)
(* failed try_map go back to where they began.                             *)
(***************************************************************************)

RECURSIVE Run(_, _), RunTuple(_, _, _), RunAlt(_, _)

Run(p, inp) ==
    CASE p.op = "literal" -> Literal(p.lit, inp)
      [] p.op = "Caseless" -> Caseless(p.lit, inp)
      [] p.op = "take_while" ->
            TakeWhile(p.lo, IF p.hi = NoneU THEN Len(inp) ELSE p.hi, p.set, inp)
      [] p.op = "one_of" -> OneOf(p.set, inp)
      [] p.op = "value" ->
            LET r == Run(p.of, inp)
            IN  IF r.ok THEN Matched(p.value, r.rest) ELSE r
      [] p.op = "map" ->
            LET r == Run(p.of, inp)
            IN  IF r.ok THEN Matched(MapBy(p.by, r.value), r.rest) ELSE r
      [] p.op = "try_map" ->
            LET r == Run(p.of, inp)
            IN  IF ~r.ok THEN r
                ELSE LET m == TryMapBy(p.by, r.value)
                     IN  IF m.ok THEN Matched(m.value, r.rest) ELSE Backtrack(inp)
      [] p.op = "tuple" -> RunTuple(p.items, inp, <<>>)
      [] p.op = "alt" -> RunAlt(p.items, inp)
      [] p.op = "opt" ->
            LET r == Run(p.of, inp)
            IN  IF r.ok THEN Matched(Some(r.value), r.rest) ELSE Matched(None, inp)
      [] p.op = "preceded" ->
            LET first == Run(p.first, inp)
            IN  IF first.ok THEN Run(p.second, first.rest) ELSE first

RunTuple(items, inp, values) ==
    IF Len(items) = 0 THEN Matched(values, inp)
    ELSE LET r == Run(Head(items), inp)
         IN  IF r.ok THEN RunTuple(Tail(items), r.rest, Append(values, r.value)) ELSE r

RunAlt(items, inp) ==
    LET r == Run(Head(items), inp)
    IN  IF r.ok \/ Len(items) = 1 THEN r ELSE RunAlt(Tail(items), inp)

(***************************************************************************)
(* temps_core::common                                                      *)
(***************************************************************************)

ParseDigitNumber == PTryMap(Digit1, "parse::<i64>")

ParseTwoDigitNumber == PTryMap(PTakeWhile(1, 2, AsciiDigits), "parse::<u8>")

ParseFourDigitNumber == PTryMap(PTakeWhile(4, 4, AsciiDigits), "parse::<u16>")

ParseOffsetTimezone ==
    PMap(PTuple(<<POneOf({"+", "-"}),
                  ParseTwoDigitNumber,
                  POpt(PTuple(<<PLiteral(<<":">>), ParseTwoDigitNumber>>))>>),
         "OffsetTimezone")

ParseTimezone == PAlt(<<PValue(PLiteral(<<"Z">>), TzUtc), ParseOffsetTimezone>>)

ParseIsoDatetime ==
    PMap(PTuple(<<ParseFourDigitNumber,
                  PLiteral(<<"-">>),
                  ParseTwoDigitNumber,
                  PLiteral(<<"-">>),
                  ParseTwoDigitNumber,
                  POpt(PTuple(<<POneOf({"T", " "}),
                                ParseTwoDigitNumber,
                                PLiteral(<<":">>),
                                ParseTwoDigitNumber,
                                POpt(PTuple(<<PLiteral(<<":">>),
                                              ParseTwoDigitNumber,
                                              POpt(PTuple(<<PLiteral(<<".">>),
                                                            PTryMap(Digit1, "nanoseconds")>>))>>)),
                                POpt(ParseTimezone)>>))>>),
         "IsoDatetime")

(***************************************************************************)
(* temps_core::language::english                                           *)
(***************************************************************************)

\* Caseless(lit).value(v) and lit.value(v).
Cl(lit, v) == PValue(PCaseless(lit), v)
Lt(lit, v) == PValue(PLiteral(lit), v)

EnglishParseNumber ==
    PAlt(<<ParseDigitNumber,
           PAlt(<<Cl(<<"a", "n">>, I64(1)), Cl(<<"a">>, I64(1)), Cl(<<"o", "n", "e">>, I64(1))>>),
           Cl(<<"t", "w", "o">>, I64(2)), Cl(<<"t", "h", "r", "e", "e">>, I64(3)), Cl(<<"f", "o", "u", "r">>, I64(4)), Cl(<<"f", "i", "v", "e">>, I64(5)), Cl(<<"s", "i", "x">>, I64(6)),
           Cl(<<"s", "e", "v", "e", "n">>, I64(7)), Cl(<<"e", "i", "g", "h", "t">>, I64(8)), Cl(<<"n", "i", "n", "e">>, I64(9)), Cl(<<"t", "e", "n">>, I64(10))>>)

\* The alternation with the single letter m tried first.
EnglishParseTimeUnitShortFirst ==
    PAlt(<<Cl(<<"m">>, "Minute"),
           PAlt(<<Cl(<<"s", "e", "c", "o", "n", "d", "s">>, "Second"), Cl(<<"s", "e", "c", "o", "n", "d">>, "Second"), Cl(<<"s", "e", "c", "s">>, "Second"),
                  Cl(<<"s", "e", "c">>, "Second"), Cl(<<"s">>, "Second")>>),
           PAlt(<<Cl(<<"m", "i", "n", "u", "t", "e", "s">>, "Minute"), Cl(<<"m", "i", "n", "u", "t", "e">>, "Minute"), Cl(<<"m", "i", "n", "s">>, "Minute"),
                  Cl(<<"m", "i", "n">>, "Minute")>>),
           PAlt(<<Cl(<<"h", "o", "u", "r", "s">>, "Hour"), Cl(<<"h", "o", "u", "r">>, "Hour"), Cl(<<"h", "r", "s">>, "Hour"),
                  Cl(<<"h", "r">>, "Hour"), Cl(<<"h">>, "Hour")>>),
           PAlt(<<Cl(<<"d", "a", "y", "s">>, "Day"), Cl(<<"d", "a", "y">>, "Day"), Cl(<<"d">>, "Day")>>),
           PAlt(<<Cl(<<"w", "e", "e", "k", "s">>, "Week"), Cl(<<"w", "e", "e", "k">>, "Week"), Cl(<<"w", "k", "s">>, "Week"),
                  Cl(<<"w", "k">>, "Week"), Cl(<<"w">>, "Week")>>),
           PAlt(<<Cl(<<"m", "o", "n", "t", "h", "s">>, "Month"), Cl(<<"m", "o", "n", "t", "h">>, "Month"), Cl(<<"m", "o", "s">>, "Month"),
                  Cl(<<"m", "o">>, "Month")>>),
           PAlt(<<Cl(<<"y", "e", "a", "r", "s">>, "Year"), Cl(<<"y", "e", "a", "r">>, "Year"), Cl(<<"y", "r", "s">>, "Year"),
                  Cl(<<"y", "r">>, "Year"), Cl(<<"y">>, "Year")>>)>>)

EnglishParseTimeUnit ==
    PAlt(<<PAlt(<<Cl(<<"s", "e", "c", "o", "n", "d", "s">>, "Second"), Cl(<<"s", "e", "c", "o", "n", "d">>, "Second"), Cl(<<"s", "e", "c", "s">>, "Second"),
                  Cl(<<"s", "e", "c">>, "Second"), Cl(<<"s">>, "Second")>>),
           PAlt(<<Cl(<<"m", "i", "n", "u", "t", "e", "s">>, "Minute"), Cl(<<"m", "i", "n", "u", "t", "e">>, "Minute"), Cl(<<"m", "i", "n", "s">>, "Minute"),
                  Cl(<<"m", "i", "n">>, "Minute")>>),
           PAlt(<<Cl(<<"h", "o", "u", "r", "s">>, "Hour"), Cl(<<"h", "o", "u", "r">>, "Hour"), Cl(<<"h", "r", "s">>, "Hour"),
                  Cl(<<"h", "r">>, "Hour"), Cl(<<"h">>, "Hour")>>),
           PAlt(<<Cl(<<"d", "a", "y", "s">>, "Day"), Cl(<<"d", "a", "y">>, "Day"), Cl(<<"d">>, "Day")>>),
           PAlt(<<Cl(<<"w", "e", "e", "k", "s">>, "Week"), Cl(<<"w", "e", "e", "k">>, "Week"), Cl(<<"w", "k", "s">>, "Week"),
                  Cl(<<"w", "k">>, "Week"), Cl(<<"w">>, "Week")>>),
           PAlt(<<Cl(<<"m", "o", "n", "t", "h", "s">>, "Month"), Cl(<<"m", "o", "n", "t", "h">>, "Month"), Cl(<<"m", "o", "s">>, "Month"),
                  Cl(<<"m", "o">>, "Month")>>),
           PAlt(<<Cl(<<"y", "e", "a", "r", "s">>, "Year"), Cl(<<"y", "e", "a", "r">>, "Year"), Cl(<<"y", "r", "s">>, "Year"),
                  Cl(<<"y", "r">>, "Year"), Cl(<<"y">>, "Year")>>),
           Cl(<<"m">>, "Minute")>>)

EnglishParseRelativePast ==
    PMap(PTuple(<<EnglishParseNumber, Multispace1, EnglishParseTimeUnit, Multispace1,
                  PCaseless(<<"a", "g", "o">>)>>),
         "RelativePast")

EnglishParseRelativeFuture ==
    PMap(PPreceded(PTuple(<<PCaseless(<<"i", "n">>), Multispace1>>),
                   PTuple(<<EnglishParseNumber, Multispace1, EnglishParseTimeUnit>>)),
         "RelativeFuture")

EnglishParseNow == PValue(PCaseless(<<"n", "o", "w">>), ExprNow)

EnglishParseWeekday ==
    PAlt(<<PAlt(<<Cl(<<"m", "o", "n", "d", "a", "y">>, 0), Cl(<<"m", "o", "n">>, 0)>>),
           PAlt(<<Cl(<<"t", "u", "e", "s", "d", "a", "y">>, 1), Cl(<<"t", "u", "e">>, 1)>>),
           PAlt(<<Cl(<<"w", "e", "d", "n", "e", "s", "d", "a", "y">>, 2), Cl(<<"w", "e", "d">>, 2)>>),
           PAlt(<<Cl(<<"t", "h", "u", "r", "s", "d", "a", "y">>, 3), Cl(<<"t", "h", "u">>, 3)>>),
           PAlt(<<Cl(<<"f", "r", "i", "d", "a", "y">>, 4), Cl(<<"f", "r", "i">>, 4)>>),
           PAlt(<<Cl(<<"s", "a", "t", "u", "r", "d", "a", "y">>, 5), Cl(<<"s", "a", "t">>, 5)>>),
           PAlt(<<Cl(<<"s", "u", "n", "d", "a", "y">>, 6), Cl(<<"s", "u", "n">>, 6)>>)>>)

EnglishParseDayShortcuts ==
    PAlt(<<Cl(<<"t", "o", "d", "a", "y">>, DayShortcut("Today")), Cl(<<"y", "e", "s", "t", "e", "r", "d", "a", "y">>, DayShortcut("Yesterday")),
           Cl(<<"t", "o", "m", "o", "r", "r", "o", "w">>, DayShortcut("Tomorrow"))>>)

EnglishParseWeekdayModifier == PAlt(<<Cl(<<"l", "a", "s", "t">>, "Last"), Cl(<<"n", "e", "x", "t">>, "Next")>>)

EnglishParseModifiedWeekday ==
    PMap(PTuple(<<EnglishParseWeekdayModifier, Multispace1, EnglishParseWeekday>>),
         "ModifiedWeekday")

EnglishParseSimpleWeekday == PMap(EnglishParseWeekday, "SimpleWeekday")

\* alt((parse_day_shortcuts, parse_modified_weekday, parse_simple_weekday)),
\* in parse_day_reference and in parse_day_at_time.
EnglishParseDay ==
    PAlt(<<EnglishParseDayShortcuts, EnglishParseModifiedWeekday, EnglishParseSimpleWeekday>>)

EnglishParseDayReference == PMap(EnglishParseDay, "Day")

EnglishParseMeridiem ==
    PAlt(<<PAlt(<<Cl(<<"a", "m">>, "AM"), Cl(<<"a", ".", "m", ".">>, "AM")>>),
           PAlt(<<Cl(<<"p", "m">>, "PM"), Cl(<<"p", ".", "m", ".">>, "PM")>>)>>)

EnglishParseTimeDigits ==
    PMap(PTuple(<<ParseTwoDigitNumber,
                  PLiteral(<<":">>),
                  ParseTwoDigitNumber,
                  POpt(PPreceded(PLiteral(<<":">>), ParseTwoDigitNumber)),
                  POpt(PPreceded(Multispace1, EnglishParseMeridiem))>>),
         "EnglishTimeDigits")

EnglishParseTime == PMap(EnglishParseTimeDigits, "EnglishTime")

EnglishParseDayAtTime ==
    PMap(PTuple(<<EnglishParseDay,
                  PPreceded(Multispace1,
                            PPreceded(PCaseless(<<"a", "t">>),
                                      PPreceded(Multispace1, EnglishParseTimeDigits)))>>),
         "EnglishDayTime")

EnglishParseDateFormat ==
    PAlt(<<PMap(PTuple(<<ParseFourDigitNumber, PLiteral(<<"-">>), ParseTwoDigitNumber,
                         PLiteral(<<"-">>), ParseTwoDigitNumber>>),
                "DateYmd"),
           PMap(PTuple(<<ParseTwoDigitNumber,
                         PAlt(<<PLiteral(<<"/">>), PLiteral(<<"-">>)>>),
                         ParseTwoDigitNumber,
                         PAlt(<<PLiteral(<<"/">>), PLiteral(<<"-">>)>>),
                         ParseFourDigitNumber>>),
                "DateDmy")>>)

\* The alternation with parse_date_format tried before parse_iso_datetime.
EnglishAlternativesDateFirst ==
    PAlt(<<EnglishParseDateFormat, ParseIsoDatetime, EnglishParseDayAtTime, EnglishParseNow,
           EnglishParseDayReference, EnglishParseTime, EnglishParseRelativePast,
           EnglishParseRelativeFuture>>)

\* The alternation of EnglishParser::parse.
EnglishAlternatives ==
    PAlt(<<ParseIsoDatetime, EnglishParseDateFormat, EnglishParseDayAtTime, EnglishParseNow,
           EnglishParseDayReference, EnglishParseTime, EnglishParseRelativePast,
           EnglishParseRelativeFuture>>)

(***************************************************************************)
(* temps_core::language::german                                            *)
(***************************************************************************)

GermanParseNumber ==
    PAlt(<<ParseDigitNumber,
           Lt(<<"e", "i", "n", "e", "m">>, I64(1)), Lt(<<"e", "i", "n", "e", "r">>, I64(1)), Lt(<<"e", "i", "n", "e", "n">>, I64(1)), Lt(<<"e", "i", "n", "e">>, I64(1)), Lt(<<"e", "i", "n">>, I64(1)),
           Lt(<<"z", "w", "e", "i">>, I64(2)), Lt(<<"d", "r", "e", "i">>, I64(3)), Lt(<<"v", "i", "e", "r">>, I64(4)), Lt(<<"f", "uuml", "n", "f">>, I64(5)), Lt(<<"s", "e", "c", "h", "s">>, I64(6)),
           Lt(<<"s", "i", "e", "b", "e", "n">>, I64(7)), Lt(<<"a", "c", "h", "t">>, I64(8)), Lt(<<"n", "e", "u", "n">>, I64(9)), Lt(<<"z", "e", "h", "n">>, I64(10))>>)

GermanParseTimeUnit ==
    PAlt(<<PAlt(<<Lt(<<"S", "e", "k", "u", "n", "d", "e", "n">>, "Second"), Lt(<<"S", "e", "k", "u", "n", "d", "e">>, "Second"), Cl(<<"s", "e", "k">>, "Second")>>),
           PAlt(<<Lt(<<"M", "i", "n", "u", "t", "e", "n">>, "Minute"), Lt(<<"M", "i", "n", "u", "t", "e">>, "Minute"), Cl(<<"m", "i", "n">>, "Minute")>>),
           PAlt(<<Lt(<<"S", "t", "u", "n", "d", "e", "n">>, "Hour"), Lt(<<"S", "t", "u", "n", "d", "e">>, "Hour"), Cl(<<"s", "t", "d">>, "Hour")>>),
           PAlt(<<Lt(<<"T", "a", "g", "e", "n">>, "Day"), Lt(<<"T", "a", "g", "e">>, "Day"), Lt(<<"T", "a", "g">>, "Day")>>),
           PAlt(<<Lt(<<"W", "o", "c", "h", "e", "n">>, "Week"), Lt(<<"W", "o", "c", "h", "e">>, "Week")>>),
           PAlt(<<Lt(<<"M", "o", "n", "a", "t", "e", "n">>, "Month"), Lt(<<"M", "o", "n", "a", "t", "e">>, "Month"), Lt(<<"M", "o", "n", "a", "t">>, "Month")>>),
           PAlt(<<Lt(<<"J", "a", "h", "r", "e", "n">>, "Year"), Lt(<<"J", "a", "h", "r", "e">>, "Year"), Lt(<<"J", "a", "h", "r">>, "Year")>>)>>)

GermanParseRelativePast ==
    PMap(PPreceded(PLiteral(<<"v", "o", "r">>),
                   PPreceded(Spaces1,
                             PTuple(<<GermanParseNumber, Spaces1, GermanParseTimeUnit>>))),
         "RelativePast")

GermanParseRelativeFuture ==
    PMap(PPreceded(PLiteral(<<"i", "n">>),
                   PPreceded(Spaces1,
                             PTuple(<<GermanParseNumber, Spaces1, GermanParseTimeUnit>>))),
         "RelativeFuture")

GermanParseNow == PValue(PCaseless(<<"j", "e", "t", "z", "t">>), ExprNow)

GermanParseWeekday ==
    PAlt(<<PAlt(<<Lt(<<"M", "o", "n", "t", "a", "g">>, 0), Cl(<<"m", "o">>, 0)>>),
           PAlt(<<Lt(<<"D", "i", "e", "n", "s", "t", "a", "g">>, 1), Cl(<<"d", "i">>, 1)>>),
           PAlt(<<Lt(<<"M", "i", "t", "t", "w", "o", "c", "h">>, 2), Cl(<<"m", "i">>, 2)>>),
           PAlt(<<Lt(<<"D", "o", "n", "n", "e", "r", "s", "t", "a", "g">>, 3), Cl(<<"d", "o">>, 3)>>),
           PAlt(<<Lt(<<"F", "r", "e", "i", "t", "a", "g">>, 4), Cl(<<"f", "r">>, 4)>>),
           PAlt(<<Lt(<<"S", "a", "m", "s", "t", "a", "g">>, 5), Cl(<<"s", "a">>, 5)>>),
           PAlt(<<Lt(<<"S", "o", "n", "n", "t", "a", "g">>, 6), Cl(<<"s", "o">>, 6)>>)>>)

GermanParseDayShortcuts ==
    PAlt(<<Cl(<<"h", "e", "u", "t", "e">>, DayShortcut("Today")), Cl(<<"g", "e", "s", "t", "e", "r", "n">>, DayShortcut("Yesterday")),
           Cl(<<"m", "o", "r", "g", "e", "n">>, DayShortcut("Tomorrow"))>>)

GermanParseWeekdayModifier ==
    PAlt(<<PAlt(<<Lt(<<"l", "e", "t", "z", "t", "e", "n">>, "Last"), Lt(<<"l", "e", "t", "z", "t", "e">>, "Last")>>),
           PAlt(<<Lt(<<"n", "auml", "c", "h", "s", "t", "e", "n">>, "Next"), Lt(<<"n", "auml", "c", "h", "s", "t", "e">>, "Next")>>)>>)

GermanParseModifiedWeekday ==
    PMap(PTuple(<<GermanParseWeekdayModifier, Spaces1, GermanParseWeekday>>),
         "ModifiedWeekday")

GermanParseSimpleWeekday == PMap(GermanParseWeekday, "SimpleWeekday")

\* alt((parse_day_shortcuts, parse_modified_weekday, parse_simple_weekday)),
\* in parse_day_reference and in parse_day_at_time.
GermanParseDay ==
    PAlt(<<GermanParseDayShortcuts, GermanParseModifiedWeekday, GermanParseSimpleWeekday>>)

GermanParseDayReference == PMap(GermanParseDay, "Day")

GermanParseTimeDigits ==
    PMap(PTuple(<<ParseTwoDigitNumber,
                  PLiteral(<<":">>),
                  ParseTwoDigitNumber,
                  POpt(PPreceded(PLiteral(<<":">>), ParseTwoDigitNumber))>>),
         "GermanTimeDigits")

GermanParseTime ==
    PMap(PTuple(<<GermanParseTimeDigits, POpt(PPreceded(Spaces1, PCaseless(<<"u", "h", "r">>)))>>),
         "GermanTime")

GermanParseDayAtTime ==
    PMap(PTuple(<<GermanParseDay, Spaces1, PLiteral(<<"u", "m">>), Spaces1, GermanParseTimeDigits,
                  POpt(PPreceded(Spaces1, PCaseless(<<"u", "h", "r">>)))>>),
         "GermanDayTime")

\* The date format if it took a slash as well as a dot.
GermanParseDateFormatSlashed ==
    PMap(PTuple(<<ParseTwoDigitNumber, PAlt(<<PLiteral(<<".">>), PLiteral(<<"/">>)>>),
                  ParseTwoDigitNumber, PAlt(<<PLiteral(<<".">>), PLiteral(<<"/">>)>>),
                  ParseFourDigitNumber>>),
         "DateDmy")

\* DD.MM.YYYY
GermanParseDateFormat ==
    PMap(PTuple(<<ParseTwoDigitNumber, PLiteral(<<".">>), ParseTwoDigitNumber, PLiteral(<<".">>),
                  ParseFourDigitNumber>>),
         "DateDmy")

\* The alternation of GermanParser::parse.
GermanAlternatives ==
    PAlt(<<ParseIsoDatetime, GermanParseDateFormat, GermanParseDayAtTime, GermanParseNow,
           GermanParseDayReference, GermanParseTime, GermanParseRelativePast,
           GermanParseRelativeFuture>>)

(***************************************************************************)
(* Parser::parse and the two LanguageParser implementations                *)
(***************************************************************************)

\* What winnow's ParseError carries: the input and the byte offset at which
\* the parser stood when it gave up.
WinnowParseError(text, offset) ==
    [kind |-> "winnow::error::ParseError", input |-> text, offset |-> offset]

\* ParseErrorExt::to_temps_error
ToTempsError(e, text) == ParseErrorWithPosition(text, e.offset)

\* The alternation of the grammar of a language, and the whitespace its
\* parse takes around it.
Alternatives(lang) == IF lang = "English" THEN EnglishAlternatives ELSE GermanAlternatives
Whitespace0(lang) == IF lang = "English" THEN Multispace0 ELSE Spaces0

\* The outcome of a parse whose alternation gave body and whose trailing
\* whitespace gave trail; without the end-of-input check (Parser::parse_next).
WinnowOutcomeNoEof(inp, body, trail) ==
    IF ~body.ok THEN Err(WinnowParseError(inp, ByteLen(inp) - ByteLen(trail.rest)))
    ELSE Ok(body.value)

\* The same with Parser::parse's end-of-input check: the whole input must be
\* consumed; the error holds the offset at which the parser stood.
WinnowOutcome(inp, body, trail) ==
    IF ~body.ok \/ trail.rest # <<>>
    THEN Err(WinnowParseError(inp, ByteLen(inp) - ByteLen(trail.rest)))
    ELSE Ok(body.value)

\* The trailing whitespace of delimited(..), taken only after a successful body.
WinnowTrail(lang, body) == IF body.ok THEN Run(Whitespace0(lang), body.rest) ELSE body

\* The leading whitespace and the alternation of delimited(..).
WinnowBody(lang, inp) == Run(Alternatives(lang), Run(Whitespace0(lang), inp).rest)

WinnowEnd(lang, inp, body) == WinnowOutcome(inp, body, WinnowTrail(lang, body))
WinnowEndNoEof(lang, inp, body) == WinnowOutcomeNoEof(inp, body, WinnowTrail(lang, body))

WinnowParseNoEof(lang, inp) == WinnowEndNoEof(lang, inp, WinnowBody(lang, inp))

\* delimited(whitespace, alt(..), whitespace).parse(inp)
WinnowParse(lang, inp) == WinnowEnd(lang, inp, WinnowBody(lang, inp))

\* EnglishParser::parse maps winnow's error with to_temps_error.
EnglishMapErr(r, inp) == IF r.ok THEN r ELSE Err(ToTempsError(r.err, inp))

EnglishParse(inp) == EnglishMapErr(WinnowParse("English", inp), inp)

\* GermanParser::parse hands winnow's error back as it is.
GermanParse(inp) == WinnowParse("German", inp)

Languages == {"English", "German"}

\* temps_core::parse
Parse(inp, lang) == IF lang = "English" THEN EnglishParse(inp) ELSE GermanParse(inp)

(***************************************************************************)
(* Parsing texts and resolving what they parse to, as parse_to_datetime    *)
(* and parse_to_zoned do: temps_core::parse first, then the provider's     *)
(* parse_expression on the expression, or the parse error handed back.     *)
(***************************************************************************)

\* The most whitespace characters put before and after a phrase.
MaxPad == 1

\* format!("{:02}") and format!("{:04}") of a natural number.
FormatPadded(n, width) ==
    LET digits == FormatNumber(n)
    IN  [i \in 1 .. (width - Len(digits)) |-> "0"] \o digits

\* A field of one or two digits is written with or without its leading zero.
TwoDigitForms(n) == {FormatNumber(n), FormatPadded(n, 2)}

DayValues == {1, 29, 31, 32, MaxTwoDigit}
MonthValues == {0, 2, 12, 13}
YearValues == {2023, 2024}
HourValues == {0, 3, 12, 23, 24, 25, MaxTwoDigit}
MinuteValues == {0, 59, 60}
SecondValues == {0, 59, 60}
DateSeparators == {"/", "-", "."}

DateText(d, s1, m, s2, y) == d \o <<s1>> \o m \o <<s2>> \o FormatPadded(y, 4)

\* Every date text with the values it is written from.
DateCases ==
    UNION {UNION {{[text |-> DateText(dt, s1, mt, s2, y), day |-> d, month |-> m,
                    year |-> y, separators |-> {s1, s2}] :
                      dt \in TwoDigitForms(d), mt \in TwoDigitForms(m),
                      s1 \in DateSeparators, s2 \in DateSeparators, y \in YearValues} :
                  d \in DayValues} : m \in MonthValues}

DateInputs == {c.text : c \in DateCases}

\* Every clock text with the values it is written from; a text without
\* seconds stands for second 0.
ClockCases ==
    UNION {UNION {{[text |-> ht \o <<":">> \o mt, hour |-> h, minute |-> mi, second |-> 0] :
                      ht \in TwoDigitForms(h), mt \in TwoDigitForms(mi)} :
                  h \in HourValues} : mi \in MinuteValues}
    \cup
    UNION {UNION {UNION {{[text |-> ht \o <<":">> \o mt \o <<":">> \o st,
                           hour |-> h, minute |-> mi, second |-> s] :
                             ht \in TwoDigitForms(h), mt \in TwoDigitForms(mi),
                             st \in TwoDigitForms(s)} :
                         h \in HourValues} : mi \in MinuteValues} : s \in SecondValues}

ClockTexts == {c.text : c \in ClockCases}

TimeSuffixes == {<<>>, <<" ", "p", "m">>, <<" ", "a", ".", "m", ".">>, <<"p", "m">>, <<" ", "U", "h", "r">>}

TimeInputs == {c \o x : c \in ClockTexts, x \in TimeSuffixes}

\* The literals an alternation of literal.value(..) parsers, nested or not,
\* tries.
RECURSIVE LiteralsOf(_)
LiteralsOf(p) ==
    IF p.op = "alt" THEN UNION {LiteralsOf(p.items[i]) : i \in DOMAIN p.items}
    ELSE IF p.op = "value" THEN {p.of.lit}
    ELSE {}

AmountTexts ==
    {FormatNumber(n) : n \in {1, 5, MaxAmount}} \cup {<<"a", "n">>, <<"t", "w", "o">>, <<"e", "i", "n", "e", "m">>, <<"f", "uuml", "n", "f">>}

UnitTexts == LiteralsOf(EnglishParseTimeUnit) \cup LiteralsOf(GermanParseTimeUnit)

RelativeInputs ==
    UNION {{<<"i", "n", " ">> \o n \o <<" ">> \o u, n \o <<" ">> \o u \o <<" ", "a", "g", "o">>, <<"v", "o", "r", " ">> \o n \o <<" ">> \o u} :
             n \in AmountTexts, u \in UnitTexts}

\* The literals of an alternation of literal.value(..) parsers with the
\* values they stand for.
RECURSIVE ValuedLiterals(_)
ValuedLiterals(p) ==
    IF p.op = "alt" THEN UNION {ValuedLiterals(p.items[i]) : i \in DOMAIN p.items}
    ELSE IF p.op = "value" THEN {[text |-> p.of.lit, value |-> p.value]}
    ELSE {}

\* Digit runs, one with leading zeros, with the numbers they write.
DigitForms ==
    {[text |-> FormatNumber(n), value |-> I64(n)] : n \in {0, 5, MaxAmount}}
        \cup {[text |-> <<"0", "0", "7">>, value |-> I64(7)]}

\* Every number form of a language before every unit spelling of it, in the
\* future and in the past form, with the expression it denotes.
RelativeCasesOf(lang, numbers, units, past_prefix, past_suffix) ==
    UNION {{[language |-> lang, text |-> <<"i", "n", " ">> \o n.text \o <<" ">> \o u.text,
             expr |-> Relative(n.value, u.value, "Future")],
            [language |-> lang, text |-> past_prefix \o n.text \o <<" ">> \o u.text \o past_suffix,
             expr |-> Relative(n.value, u.value, "Past")]} :
              <<n, u>> \in (DigitForms \cup ValuedLiterals(numbers)) \X ValuedLiterals(units)}

RelativeCases ==
    RelativeCasesOf("English", EnglishParseNumber, EnglishParseTimeUnit, <<>>, <<" ", "a", "g", "o">>)
        \cup RelativeCasesOf("German", GermanParseNumber, GermanParseTimeUnit, <<"v", "o", "r", " ">>, <<>>)

RelativeCaseInputs == {c.text : c \in RelativeCases}

WeekdayTexts == LiteralsOf(EnglishParseWeekday) \cup LiteralsOf(GermanParseWeekday)

ModifierPrefixes ==
    {<<>>} \cup {m \o <<" ">> :
                   m \in LiteralsOf(EnglishParseWeekdayModifier)
                            \cup LiteralsOf(GermanParseWeekdayModifier)}

DayInputs ==
    {m \o w : m \in ModifierPrefixes, w \in WeekdayTexts}
        \cup LiteralsOf(EnglishParseDayShortcuts) \cup LiteralsOf(GermanParseDayShortcuts)

DayTimeInputs ==
    {d \o at \o t :
        d \in {<<"t", "o", "m", "o", "r", "r", "o", "w">>, <<"n", "e", "x", "t", " ", "f", "r", "i", "d", "a", "y">>, <<"m", "o", "n">>, <<"m", "o", "r", "g", "e", "n">>, <<"n", "auml", "c", "h", "s", "t", "e", "n", " ", "F", "r", "e", "i", "t", "a", "g">>, <<"m", "o">>},
        at \in {<<" ", "a", "t", " ">>, <<" ", "u", "m", " ">>, <<" ">>},
        t \in {<<"3", ":", "3", "0", " ", "p", "m">>, <<"9", ":", "0", "0">>, <<"2", "5", ":", "0", "0">>, <<"1", "5", ":", "3", "0", " ", "U", "h", "r">>}}

\* English phrases of a day and a time with a meridiem, written with a
\* space before the meridiem and directly after the digits, with the values
\* they are written from.
MeridiemCases ==
    {[spaced |-> d.text \o <<" ", "a", "t", " ">> \o <<"3", ":", "3", "0">> \o <<" ">> \o m.text,
      attached |-> d.text \o <<" ", "a", "t", " ">> \o <<"3", ":", "3", "0">> \o m.text,
      day |-> d.day, hour |-> 3, minute |-> 30, second |-> 0, meridiem |-> m.value] :
        d \in {[text |-> <<"t", "o", "m", "o", "r", "r", "o", "w">>, day |-> DayShortcut("Tomorrow")],
               [text |-> <<"n", "e", "x", "t", " ", "f", "r", "i", "d", "a", "y">>, day |-> WeekdayRef(4, "Next")]},
        m \in {[text |-> <<"p", "m">>, value |-> "PM"], [text |-> <<"a", "m">>, value |-> "AM"],
               [text |-> <<"P", "M">>, value |-> "PM"], [text |-> <<"p", ".", "m", ".">>, value |-> "PM"]}}

MeridiemCaseInputs == {c.spaced : c \in MeridiemCases} \cup {c.attached : c \in MeridiemCases}

IsoInputs ==
    {<<"2", "0", "2", "4", "-", "0", "1", "-", "1", "5">>, <<"2", "0", "2", "4", "-", "0", "1", "-", "1", "5", "T", "1", "4", ":", "3", "0">>, <<"2", "0", "2", "4", "-", "0", "1", "-", "1", "5", "T", "1", "4", ":", "3", "0", ":", "0", "0">>, <<"2", "0", "2", "4", "-", "0", "1", "-", "1", "5", " ", "1", "4", ":", "3", "0", ":", "0", "0">>,
     <<"2", "0", "2", "4", "-", "0", "1", "-", "1", "5", "T", "1", "4", ":", "3", "0", ":", "0", "0", "Z">>, <<"2", "0", "2", "4", "-", "0", "1", "-", "1", "5", "T", "1", "4", ":", "3", "0", ":", "0", "0", ".", "1", "2", "3", "Z">>, <<"2", "0", "2", "4", "-", "0", "1", "-", "1", "5", "T", "1", "4", ":", "3", "0", ":", "0", "0", "+", "0", "2", ":", "0", "0">>,
     <<"2", "0", "2", "4", "-", "0", "1", "-", "1", "5", "T", "1", "4", ":", "3", "0", ":", "0", "0", "-", "0", "5", ":", "3", "0">>, <<"2", "0", "2", "4", "-", "0", "1", "-", "1", "5", "T", "1", "4", ":", "3", "0", ":", "0", "0", "+", "0", "9">>, <<"2", "0", "2", "4", "-", "1", "3", "-", "3", "2">>,
     <<"2", "0", "2", "3", "-", "0", "2", "-", "2", "9">>, <<"2", "0", "2", "4", "-", "0", "1", "-", "1", "5", "T", "2", "5", ":", "0", "0", ":", "0", "0">>, <<"2", "0", "2", "4", "-", "0", "1", "-", "1", "5", "T">>, <<"2", "0", "2", "4", "-", "1", "-", "5">>,
     <<"2", "0", "2", "4", "-", "0", "1", "-", "1", "5", "t", "1", "4", ":", "3", "0", ":", "0", "0", "z">>}

\* ISO timestamps of one wall-clock time with an offset suffix sHH:MM, with
\* the sign, hours and minutes they are written from.
OffsetWallClock == DateTime(2024, 1, 15, 14, 30, 0, 0, 0)
OffsetCases ==
    {[text |-> <<"2", "0", "2", "4", "-", "0", "1", "-", "1", "5", "T", "1", "4", ":", "3", "0", ":", "0", "0">> \o <<s>> \o FormatPadded(h, 2) \o <<":">> \o FormatPadded(m, 2),
      sign |-> s, hours |-> h, minutes |-> m] :
        s \in {"+", "-"}, h \in {0, 5, 9}, m \in {0, 30}}
OffsetInputs == {c.text : c \in OffsetCases}

\* ISO texts with the fields they are written from: the date, then nothing,
\* or a clock time after 'T' or a space with or without seconds and a
\* fraction of them, then nothing, 'Z' or an offset.
IsoDates ==
    UNION {{[text |-> FormatPadded(x[1], 4) \o <<"-">> \o mt \o <<"-">> \o dt,
             year |-> x[1], month |-> x[2], day |-> x[3]] :
               mt \in TwoDigitForms(x[2]), dt \in TwoDigitForms(x[3])} :
           x \in {<<2024, 1, 15>>, <<2023, 12, 31>>, <<2024, 13, MaxTwoDigit>>}}

IsoFractions ==
    {<<"1">>, <<"1", "2", "3">>, <<"0", "0", "0", "0", "0", "0", "0", "0", "1">>, <<"1", "2", "3", "4", "5", "6", "7", "8", "9">>, <<"1", "2", "3", "4", "5", "6", "7", "8", "9", "9">>, <<"9", "9", "9", "9", "9", "9", "9", "9", "9", "9", "9", "9">>}

IsoClocks ==
    {[text |-> <<sep>> \o <<"1", "4", ":", "3", "0">>, hour |-> 14, minute |-> 30, second |-> NoneU,
      fraction |-> <<>>] : sep \in {"T", " "}}
    \cup {[text |-> <<"T">> \o FormatPadded(x[1], 2) \o <<":">> \o FormatPadded(x[2], 2)
                       \o <<":">> \o FormatPadded(x[3], 2)
                       \o (IF f = <<>> THEN <<>> ELSE <<".">> \o f),
            hour |-> x[1], minute |-> x[2], second |-> x[3], fraction |-> f] :
              x \in {<<14, 30, 0>>, <<23, 59, 59>>}, f \in IsoFractions \cup {<<>>}}

IsoZones ==
    {[text |-> <<>>, timezone |-> TzNone], [text |-> <<"Z">>, timezone |-> TzUtc],
     [text |-> <<"+", "0", "2", ":", "0", "0">>, timezone |-> TzOffset(2, 0)],
     [text |-> <<"-", "0", "5", ":", "0", "0">>, timezone |-> TzOffset(-5, 0)],
     [text |-> <<"+", "0", "9">>, timezone |-> TzOffset(9, 0)]}

IsoCases ==
    {[text |-> d.text, date |-> d, clock |-> <<>>, zone |-> TzNone] : d \in IsoDates}
    \cup {[text |-> d.text \o c.text \o z.text, date |-> d, clock |-> <<c>>,
            zone |-> z.timezone] : d \in IsoDates, c \in IsoClocks, z \in IsoZones}

IsoCaseInputs == {c.text : c \in IsoCases}

\* ISO texts of a date followed directly by 'Z' or an offset.
DateZoneCases ==
    {[text |-> d.text \o z.text, date |-> d, clock |-> <<>>, zone |-> z.timezone] :
        d \in IsoDates, z \in {y \in IsoZones : y.text # <<>>}}

DateZoneInputs == {c.text : c \in DateZoneCases}

\* Phrases of both grammars, and texts of neither.
Phrases ==
    {<<"n", "o", "w">>, <<"t", "o", "d", "a", "y">>, <<"t", "o", "m", "o", "r", "r", "o", "w">>, <<"j", "e", "t", "z", "t">>, <<"h", "e", "u", "t", "e">>, <<"m", "o", "r", "g", "e", "n">>,
     <<"i", "n", " ", "5", " ", "m", "i", "n", "u", "t", "e", "s">>, <<"i", "n", " ", "5", " ", "m", "i", "n">>, <<"i", "n", " ", "5", " ", "m">>, <<"5", " ", "m", "i", "n", "u", "t", "e", "s", " ", "a", "g", "o">>, <<"a", "n", " ", "h", "o", "u", "r", " ", "a", "g", "o">>,
     <<"i", "n", " ", "a", " ", "w", "e", "e", "k">>, <<"i", "n", " ", "2", " ", "m", "o">>, <<"o", "n", "e", " ", "y", "e", "a", "r", " ", "a", "g", "o">>,
     <<"i", "n", " ", "5", " ", "M", "i", "n", "u", "t", "e", "n">>, <<"v", "o", "r", " ", "2", " ", "T", "a", "g", "e", "n">>, <<"i", "n", " ", "e", "i", "n", "e", "r", " ", "S", "t", "u", "n", "d", "e">>, <<"v", "o", "r", " ", "e", "i", "n", "e", "m", " ", "J", "a", "h", "r">>,
     <<"i", "n", " ", "3", " ", "s", "t", "d">>, <<"i", "n", " ", "f", "uuml", "n", "f", " ", "M", "i", "n", "u", "t", "e", "n">>,
     <<"n", "e", "x", "t", " ", "m", "o", "n", "d", "a", "y">>, <<"l", "a", "s", "t", " ", "f", "r", "i">>, <<"s", "u", "n", "d", "a", "y">>, <<"n", "auml", "c", "h", "s", "t", "e", "n", " ", "M", "o", "n", "t", "a", "g">>, <<"l", "e", "t", "z", "t", "e", " ", "m", "o">>,
     <<"M", "o", "n", "t", "a", "g">>, <<"m", "o">>, <<"f", "r">>,
     <<"3", ":", "3", "0", " ", "p", "m">>, <<"1", "2", ":", "0", "0", " ", "a", ".", "m", ".">>, <<"1", "4", ":", "3", "0">>, <<"2", "5", ":", "0", "0", ":", "0", "0">>, <<"1", "5", ":", "3", "0", " ", "U", "h", "r">>,
     <<"t", "o", "m", "o", "r", "r", "o", "w", " ", "a", "t", " ", "3", ":", "3", "0", " ", "p", "m">>, <<"n", "e", "x", "t", " ", "f", "r", "i", "d", "a", "y", " ", "a", "t", " ", "9", ":", "0", "0">>, <<"m", "o", "r", "g", "e", "n", " ", "u", "m", " ", "1", "5", ":", "3", "0">>,
     <<"h", "e", "u", "t", "e", " ", "u", "m", " ", "9", ":", "0", "0", " ", "U", "h", "r">>, <<"n", "auml", "c", "h", "s", "t", "e", "n", " ", "F", "r", "e", "i", "t", "a", "g", " ", "u", "m", " ", "9", ":", "0", "0">>,
     <<"3", "2", "/", "1", "3", "/", "2", "0", "2", "4">>, <<"1", "5", "/", "0", "3", "/", "2", "0", "2", "4">>, <<"3", "2", ".", "1", "3", ".", "2", "0", "2", "4">>, <<"1", "5", ".", "0", "3", ".", "2", "0", "2", "4">>,
     <<"2", "0", "2", "4", "-", "0", "1", "-", "1", "5">>, <<"2", "0", "2", "4", "-", "0", "1", "-", "1", "5", "T", "1", "4", ":", "3", "0", ":", "0", "0", "Z">>,
     <<"h", "e", "l", "l", "o">>, <<"i", "n">>, <<"5">>, <<>>}

\* A phrase in upper case, in lower case, and with only its first letter
\* in upper case.
CapitalText(s) ==
    [i \in 1 .. Len(s) |-> IF i = 1 THEN ToAsciiUppercase(s[i]) ELSE ToAsciiLowercase(s[i])]
CaseVariants(s) == {UpperText(s), LowerText(s), CapitalText(s)}

WhitespaceChars == {" ", "\t", "\n"}

\* Every run of at most MaxPad whitespace characters.
Pads == UNION {[1 .. k -> WhitespaceChars] : k \in 0 .. MaxPad}

\* Characters no literal of either grammar contains, and letters some do.
Unrecognised == {"!", "?", "#"}
TrailingTexts == {<<c>> : c \in Unrecognised} \cup {<<"x">>, <<" ", "x">>, <<"s">>, <<" ", "!">>, <<"5">>}

ParseInputs ==
    Phrases \cup DateInputs \cup TimeInputs \cup RelativeInputs \cup DayInputs
        \cup DayTimeInputs \cup IsoInputs \cup OffsetInputs \cup IsoCaseInputs \cup RelativeCaseInputs
        \cup MeridiemCaseInputs \cup DateZoneInputs
        \cup UNION {CaseVariants(s) : s \in Phrases \cup DayInputs \cup DayTimeInputs \cup IsoInputs}
        \cup {a \o s \o b : a \in Pads, s \in Phrases, b \in Pads}
        \cup {s \o x : s \in Phrases, x \in TrailingTexts}

InitParse ==
    /\ util = Idle
    /\ input \in ParseInputs
    /\ language \in Languages
    /\ parsed = Idle
    /\ now = Idle
    /\ backend = "chrono"
    /\ expr = Idle
    /\ resolved = Idle

\* temps_core::parse(input, language)
ParseInput ==
    /\ parsed = Idle
    /\ parsed' = Parse(input, language)
    /\ UNCHANGED <<util, input, language, now, backend, expr, resolved>>

\* The rest of parse_to_datetime: `?` hands a parse error back, otherwise
\* ChronoProvider resolves the expression against the current moment.
ParseToDatetime ==
    /\ parsed # Idle
    /\ resolved = Idle
    /\ \E t \in ZonedNows :
          /\ now' = t
          /\ expr' = IF parsed.ok THEN parsed.value ELSE Idle
          /\ resolved' = IF parsed.ok THEN ChronoParseExpression(parsed.value, t) ELSE parsed
    /\ backend' = "chrono"
    /\ UNCHANGED <<util, input, language, parsed>>

\* The rest of parse_to_zoned, with JiffProvider.
ParseToZoned ==
    /\ parsed # Idle
    /\ resolved = Idle
    /\ \E t \in ZonedNows :
          /\ now' = t
          /\ expr' = IF parsed.ok THEN parsed.value ELSE Idle
          /\ resolved' = IF parsed.ok THEN JiffParseExpression(parsed.value, t) ELSE parsed
    /\ backend' = "jiff"
    /\ UNCHANGED <<util, input, language, parsed>>

NextParse ==
    \/ ParseInput
    \/ ParseToDatetime
    \/ ParseToZoned

SpecParse == InitParse /\ [][NextParse]_vars

Parsed == parsed # Idle

(***************************************************************************)
(* Properties of parsing                                                   *)
(***************************************************************************)

StripLeadingWhitespace(s) == Drop(s, LeadingCount(AsciiWhitespace, s, Len(s)))
OnlyWhitespace(s) == \A i \in DOMAIN s : s[i] \in AsciiWhitespace

\* C6: total consumption, in both languages.  parse returns Ok only when
\* one alternative, matched where the leading whitespace ends, leaves
\* nothing but whitespace: never for a text of which a proper prefix alone
\* was matched.  A text that ends in a character no literal contains is a
\* parse error, so "now!" and "jetzt!" fail while "now" and "jetzt" parse.
C6_TotalConsumption ==
    Parsed =>
        /\ parsed.ok =>
              LET body == Run(Alternatives(language), StripLeadingWhitespace(input))
              IN  body.ok /\ OnlyWhitespace(body.rest)
        /\ (input # <<>> /\ input[Len(input)] \in Unrecognised) => ~parsed.ok
        /\ input \in {<<"n", "o", "w", "!">>, <<"j", "e", "t", "z", "t", "!">>} => ~parsed.ok
        /\ (input = <<"n", "o", "w">> /\ language = "English") => parsed = Ok(ExprNow)
        /\ (input = <<"j", "e", "t", "z", "t">> /\ language = "German") => parsed = Ok(ExprNow)

\* "now!" was handed to the English grammar and came back as an error.
C6_Witness ==
    /\ Parsed
    /\ input = <<"n", "o", "w", "!">>
    /\ language = "English"
    /\ ~parsed.ok

SameOutcome(a, b) == (a.ok = b.ok) /\ (a.ok => a.value = b.value)

\* Every change of letter case of text leaves the outcome of parse alone.
CaseInsensitive(lang, text) ==
    \A v \in CaseVariants(text) : SameOutcome(Parse(v, lang), Parse(text, lang))

\* The text after the last space, and the text with that part in upper or
\* in lower case.
LastWordStart(s) ==
    LET spaces == {i \in DOMAIN s : s[i] = " "}
    IN  IF spaces = {} THEN 1 ELSE (CHOOSE i \in spaces : \A j \in spaces : j <= i) + 1
LastWord(s) == SubSeq(s, LastWordStart(s), Len(s))
LastWordVariants(s) ==
    {SubSeq(s, 1, LastWordStart(s) - 1) \o w : w \in {UpperText(LastWord(s)), LowerText(LastWord(s))}}

\* The literals the German grammar matches with Caseless among its units
\* and weekdays: the abbreviations.
RECURSIVE CaselessLiteralsOf(_)
CaselessLiteralsOf(p) ==
    IF p.op = "alt" THEN UNION {CaselessLiteralsOf(p.items[i]) : i \in DOMAIN p.items}
    ELSE IF p.op = "value" /\ p.of.op = "Caseless" THEN {p.of.lit}
    ELSE {}
GermanAbbreviations ==
    CaselessLiteralsOf(GermanParseTimeUnit) \cup CaselessLiteralsOf(GermanParseWeekday)

\* A German expression whose text holds no literal but jetzt, heute,
\* gestern, morgen and Uhr.
GermanCaselessOnly(e) ==
    \/ e.tag = "Now"
    \/ e.tag = "Time"
    \/ e.tag = "Day" /\ e.day.ref # "Weekday"

\* C7 as the specification states it: in both grammars, changing the letter
\* case of an accepted text (the ISO 8601 form, which has no word, aside)
\* changes neither whether it parses nor the expression returned.
C7_CaseInsensitiveBothGrammars ==
    (Parsed /\ parsed.ok /\ parsed.value.tag # "Absolute") =>
        CaseInsensitive(language, input)

\* C7, amended: the English grammar matches every whole-word literal
\* without regard to case.  The German grammar does so only for jetzt,
\* heute, gestern, morgen, Uhr and the abbreviations of units and weekdays
\* (sek, min, std, mo, di, mi, do, fr, sa, so); its keywords, number words,
\* full unit and weekday names and modifiers parse only as spelled, so
\* "in 5 Minuten" parses and no other casing of it does.
C7_CaseInsensitiveEnglish ==
    (Parsed /\ parsed.ok /\ parsed.value.tag # "Absolute") =>
        /\ language = "English" => CaseInsensitive("English", input)
        /\ (language = "German" /\ GermanCaselessOnly(parsed.value)) =>
              CaseInsensitive("German", input)
        /\ (/\ language = "German"
            /\ parsed.value.tag \in {"Relative", "Day"}
            /\ LowerText(LastWord(input)) \in GermanAbbreviations) =>
              \A v \in LastWordVariants(input) : SameOutcome(Parse(v, "German"), parsed)
        /\ (language = "German" /\ input = <<"i", "n", " ", "5", " ", "M", "i", "n", "u", "t", "e", "n">>) =>
              \A v \in CaseVariants(input) : ~Parse(v, "German").ok

\* "IN 5 MINUTES" parsed by the English grammar to what "in 5 minutes" is.
C7_Witness ==
    /\ Parsed
    /\ language = "English"
    /\ input = UpperText(<<"i", "n", " ", "5", " ", "m", "i", "n", "u", "t", "e", "s">>)
    /\ parsed = Ok(Relative(I64(5), "Minute", "Future"))

\* C8: every parse failure, in either language, comes back from parse as
\* TempsError::ParseError with the original input text and, as position,
\* a byte offset into it.
C8_ParseErrorReturned ==
    (Parsed /\ ~parsed.ok) =>
        /\ parsed.err.kind = "ParseError"
        /\ parsed.err.input = input
        /\ parsed.err.position \in 0 .. ByteLen(input)

\* The half of C8 the English grammar keeps.
C8_EnglishOnly == (language = "English") => C8_ParseErrorReturned

\* The separators the date format of a language takes.
DateSeparatorsOf(lang) == IF lang = "English" THEN {"/", "-"} ELSE {"."}

ValidClock(h, mi, s) == h <= 23 /\ mi <= 59 /\ s <= 59

\* C9: range validation is deferred to resolution.  A date text of 1-2
\* digit day and month and 4-digit year parses to Date with exactly those
\* values, and a clock text of 1-2 digit fields to Time with exactly those,
\* whatever the values; resolving fails with InvalidDate when the date does
\* not exist and with InvalidTime when a field of the time is out of range,
\* and succeeds otherwise.  So "32/13/2024" parses to Date{32, 13, 2024}
\* and resolves to InvalidDate, "25:00:00" to Time{25, 0, 0} and InvalidTime.
C9_RangeValidationDeferred ==
    Parsed =>
        /\ \A c \in DateCases :
              (c.text = input /\ c.separators \subseteq DateSeparatorsOf(language)) =>
                 /\ parsed = Ok(StandardDate(c.day, c.month, c.year))
                 /\ Resolved =>
                       IF IsValidDate(c.year, c.month, c.day) THEN resolved.ok
                       ELSE resolved = Err(InvalidDate(c.year, c.month, c.day))
        /\ \A c \in ClockCases :
              c.text = input =>
                 /\ parsed = Ok(Time(TimeOfDay(c.hour, c.minute, c.second, "None")))
                 /\ Resolved =>
                       IF ValidClock(c.hour, c.minute, c.second) THEN resolved.ok
                       ELSE ~resolved.ok /\ resolved.err.kind = "InvalidTime"

\* "32/13/2024" parsed to Date{32, 13, 2024} and failed to resolve.
C9_Witness ==
    /\ Resolved
    /\ input = <<"3", "2", "/", "1", "3", "/", "2", "0", "2", "4">>
    /\ language = "English"
    /\ parsed = Ok(StandardDate(32, 13, 2024))
    /\ resolved = Err(InvalidDate(2024, 13, 32))

\* "25:00:00" parsed to Time{25, 0, 0} and failed to resolve.
C9_WitnessTime ==
    /\ Resolved
    /\ input = <<"2", "5", ":", "0", "0", ":", "0", "0">>
    /\ parsed = Ok(Time(TimeOfDay(25, 0, 0, "None")))
    /\ ~resolved.ok
    /\ resolved.err.kind = "InvalidTime"

(***************************************************************************)
(* Properties of parsing followed by resolution                            *)
(***************************************************************************)

ResolvedParse == Parsed /\ resolved # Idle

\* The case of OffsetCases the input was written from.
OffsetCase == CHOOSE c \in OffsetCases : c.text = input

\* The signed offset a suffix sHH:MM denotes, in seconds.
WrittenOffsetSeconds(c) ==
    (IF c.sign = "-" THEN -1 ELSE 1)
        * (c.hours * SECONDS_PER_HOUR + c.minutes * SECONDS_PER_MINUTE)

\* C11: an ISO timestamp with an offset suffix sHH:MM resolves to the
\* instant whose UTC time is the written wall-clock time minus the signed
\* offset s*(HH hours + MM minutes); -00:30 and +00:30 are one hour apart.
C11_OffsetSignWholeOffset ==
    (ResolvedParse /\ input \in OffsetInputs) =>
        /\ resolved.ok
        /\ WithOffset(resolved.value, 0)
              = AddSeconds(OffsetWallClock, -WrittenOffsetSeconds(OffsetCase))
        /\ (OffsetCase.hours = 0 /\ OffsetCase.minutes = 30 /\ OffsetCase.sign = "-") =>
              LET plus == ParseExpression(backend,
                              Parse(<<"2", "0", "2", "4", "-", "0", "1", "-", "1", "5", "T", "1", "4", ":", "3", "0", ":", "0", "0", "+", "0", "0", ":", "3", "0">>, language).value, now)
              IN  WithOffset(resolved.value, 0)
                      = AddSeconds(WithOffset(plus.value, 0), SECONDS_PER_HOUR)

\* The part of C11 the code keeps: offsets east of UTC and whole-hour
\* offsets west of it.
C11_EastOrWholeHours ==
    (input \in OffsetInputs /\ (OffsetCase.sign = "+" \/ OffsetCase.minutes = 0)) =>
        C11_OffsetSignWholeOffset


(***************************************************************************)
(* Relative amounts at the limits of i64 and of the two libraries.         *)
(***************************************************************************)

\* A resolved Relative{Year} whose amount times 12 does not fit i64.
YearOverflows ==
    /\ IsRelative("Year")
    /\ ~InI64(TimesSmall(expr.amount, MONTHS_PER_YEAR))

\* C12: resolving Relative{unit: Year, amount} whose amount * 12 does not
\* fit i64 returns the ArithmeticOverflow error, on either backend; the
\* month count is never wrapped around.
C12_YearOverflowIsError ==
    YearOverflows => (~resolved.ok /\ resolved.err.kind = "ArithmeticOverflow")

\* C12 on temps-chrono alone, whose checked_mul reports the overflow.
C12_ChronoYearOverflow ==
    (YearOverflows /\ backend = "chrono") =>
        resolved = Err(ArithmeticOverflow("Year calculation overflow"))

C12_ChronoWitness ==
    /\ YearOverflows /\ backend = "chrono"
    /\ expr.amount.digits = I64_MAX
    /\ resolved = Err(ArithmeticOverflow("Year calculation overflow"))

\* C13: resolving any expression against any now ends with Ok or with a
\* TempsError on either backend; it never panics.
C13_NeverPanics ==
    Resolved => (resolved.ok \/ resolved.err.kind # "Panic")

\* C13 for the amounts every unit of both libraries takes: up to 19998,
\* the most years of a jiff span, resolution returns.
C13_SmallAmountsReturn ==
    (Resolved /\ (expr.tag = "Relative" => MagnitudeAtMost(expr.amount, JiffSpanLimit("Year")))) =>
        (resolved.ok \/ resolved.err.kind # "Panic")

(***************************************************************************)
(* Day references.                                                         *)
(***************************************************************************)

\* The days from now's date to the date a day reference names.
DayOffset(dayref, t) ==
    CASE dayref.ref = "Today" -> 0
      [] dayref.ref = "Yesterday" -> -1
      [] dayref.ref = "Tomorrow" -> 1
      [] OTHER -> CalculateWeekdayOffset(WeekdayFromMonday(t.year, t.month, t.day),
                                         dayref.day, dayref.modifier)

\* dt is 00:00:00 local time on the calendar date of target.
MidnightOn(dt, target, t) ==
    /\ dt.year = target.year /\ dt.month = target.month /\ dt.day = target.day
    /\ dt.hour = 0 /\ dt.minute = 0 /\ dt.second = 0 /\ dt.nanosecond = 0
    /\ dt.offset \in LocalOffsets(t, AtMidnight(target, t.offset))

\* C14: resolving Day(ref) yields 00:00:00 local time on now's local date
\* plus k days (0 for Today, -1 for Yesterday, +1 for Tomorrow, the weekday
\* offset for a weekday), for every now, those on 23- and 25-hour days too.
C14_DayIsMidnightOfDate ==
    (Resolved /\ expr.tag = "Day") =>
        /\ resolved.ok
        /\ MidnightOn(resolved.value, AddDays(now, DayOffset(expr.day, now)), now)

\* C14 where it holds: on temps-jiff, and on temps-chrono when the zone's
\* offset k times 24 hours from now is the offset of now.
C14_CalendarDaysOrSameOffset ==
    (Resolved /\ expr.tag = "Day"
       /\ (backend = "jiff"
             \/ ChronoPlusDays(now, DayOffset(expr.day, now)).offset = now.offset)) =>
        C14_DayIsMidnightOfDate

\* The wall-clock time of a time of day on the date of a moment.
WallClockOn(date, time, t) ==
    DateTime(date.year, date.month, date.day, Convert12To24Hour(time.hour, time.meridiem),
             time.minute, time.second, 0, t.offset)

\* A time of day whose components are in range.
TimeInRange(time) ==
    Convert12To24Hour(time.hour, time.meridiem) < 24 /\ time.minute < 60 /\ time.second < 60

IsoCase == CHOOSE c \in IsoCases : c.text = input

\* The first nine digits of a fraction, right-padded with zeros, as a number.
FractionNanoseconds(fraction) == DecimalValue(SubSeq(fraction \o <<"0", "0", "0", "0", "0", "0", "0", "0", "0">>, 1, 9))

\* The Absolute an ISO text denotes: its written fields, and no field the
\* text leaves out.
IsoAbsolute(c) ==
    IF c.clock = <<>>
    THEN Absolute(c.date.year, c.date.month, c.date.day, NoneU, NoneU, NoneU, NoneU, TzNone)
    ELSE Absolute(c.date.year, c.date.month, c.date.day,
                  c.clock[1].hour, c.clock[1].minute, c.clock[1].second,
                  IF c.clock[1].fraction = <<>> THEN NoneU
                  ELSE FractionNanoseconds(c.clock[1].fraction),
                  c.zone)

\* C16: an ISO text parses to the same Absolute in English and in German:
\* the written year, month, day, hour, minute and second, Utc for 'Z', and
\* the nanosecond of the first nine fraction digits right-padded with
\* zeros, never above 999999999.
C16_IsoSameInBothLanguages ==
    (Parsed /\ input \in IsoCaseInputs) =>
        /\ parsed = Ok(IsoAbsolute(IsoCase))
        /\ Parse(input, "English") = Parse(input, "German")
        /\ parsed.value.nanosecond <= 999999999

\* "2024-01-15T14:30:00.123Z" in German, and a fraction of twelve digits.
C16_Witness ==
    /\ Parsed /\ language = "German"
    /\ input = <<"2", "0", "2", "4", "-", "0", "1", "-", "1", "5", "T", "1", "4", ":", "3", "0", ":", "0", "0", ".", "1", "2", "3", "Z">>
    /\ parsed = Ok(Absolute(2024, 1, 15, 14, 30, 0, 123000000, TzUtc))
    /\ Parse(<<"2", "0", "2", "4", "-", "0", "1", "-", "1", "5", "T", "2", "3", ":", "5", "9", ":", "5", "9", ".", "9", "9", "9", "9", "9", "9", "9", "9", "9", "9", "9", "9">>, language).value.nanosecond = 999999999

(***************************************************************************)
(* Relative phrases.                                                       *)
(***************************************************************************)

\* C17: for every number form n (a digit run, a number word or an article
\* of the language) and every spelling u of a time unit, English "in n u"
\* and German "in n u" parse to Relative{value(n), unit(u), Future}, English
\* "n u ago" and German "vor n u" to the same in the Past; the longest
\* matching literal wins: "m" and "min" are minutes, "mo", "mos", "month"
\* and "months" are months.
C17_RelativeForms ==
    Parsed =>
        /\ \A c \in RelativeCases :
              (c.text = input /\ c.language = language) => parsed = Ok(c.expr)
        /\ \A u \in {<<"m">>, <<"m", "i", "n">>} :
              input = <<"i", "n", " ", "5", " ">> \o u /\ language = "English" =>
                  parsed = Ok(Relative(I64(5), "Minute", "Future"))
        /\ \A u \in {<<"m", "o">>, <<"m", "o", "s">>, <<"m", "o", "n", "t", "h">>, <<"m", "o", "n", "t", "h", "s">>} :
              input = <<"i", "n", " ", "5", " ">> \o u /\ language = "English" =>
                  parsed = Ok(Relative(I64(5), "Month", "Future"))

\* "an mos ago" in English and "vor einem Monat" in German.
C17_Witness ==
    /\ Parsed
    /\ \/ language = "English" /\ input = <<"a", "n", " ", "m", "o", "s", " ", "a", "g", "o">>
       \/ language = "German" /\ input = <<"v", "o", "r", " ", "e", "i", "n", "e", "m", " ", "M", "o", "n", "a", "t">>
    /\ parsed = Ok(Relative(I64(1), "Month", "Past"))
    /\ Parse(<<"i", "n", " ", "5", " ", "m">>, "English") = Ok(Relative(I64(5), "Minute", "Future"))

\* A resolved Relative of a fixed-length unit with a small amount.
IsFixedRelative ==
    Resolved /\ expr \in RelativeExprs /\ expr.unit \in FixedUnits

\* C18: resolving Relative{n, unit, direction} of a unit of fixed length L
\* (1, 60, 3600, 86400 and 604800 seconds) yields exactly now + n * L in the
\* future and now - n * L in the past, and now itself when n = 0.
C18_FixedUnitsExact ==
    IsFixedRelative =>
        /\ resolved.ok
        /\ WithOffset(resolved.value, 0)
              = AddSeconds(WithOffset(now, 0),
                           Signed(expr.direction, AsInt(expr.amount)) * UnitSeconds(expr.unit))
        /\ expr.amount = I64(0) => resolved.value = now

\* C18 where it holds: on temps-chrono, for seconds, minutes and hours, and
\* in a zone whose offset never changes.
C18_ExactButJiffCalendarDays ==
    (IsFixedRelative
       /\ (backend = "chrono" \/ expr.unit \in {"Second", "Minute", "Hour"}
             \/ SystemOffsets(now) = {now.offset})) =>
        C18_FixedUnitsExact

(***************************************************************************)
(* Two calls of parse and parse_expression whose steps interleave: one     *)
(* call's input, language and results are held in input, language, parsed  *)
(* and resolved, the other's in util; now and util.now are what the clock  *)
(* gives each call when it reads it.  Both use the provider of backend, a  *)
(* unit struct; neither the grammars nor the providers keep any state.     *)
(***************************************************************************)

CallInputs ==
    {<<"n", "o", "w">>, <<"i", "n", " ", "5", " ", "m", "i", "n", "u", "t", "e", "s">>, <<"t", "o", "m", "o", "r", "r", "o", "w", " ", "a", "t", " ", "3", ":", "3", "0", " ", "p", "m">>, <<"2", "0", "2", "4", "-", "0", "1", "-", "1", "5", "T", "1", "4", ":", "3", "0", ":", "0", "0", "Z">>,
     <<"3", "2", "/", "1", "3", "/", "2", "0", "2", "4">>, <<"h", "e", "l", "l", "o">>, <<"i", "n", " ", "2", "0", "0", "0", "0", " ", "y", "e", "a", "r", "s">>, <<"m", "o", "r", "g", "e", "n", " ", "u", "m", " ", "1", "5", ":", "3", "0">>}

CallNows == ZonedNows \cup {DateTime(2024, 3, 30, 23, 30, 0, 0, CET)}

\* self.now() if a call worked from the reading of the clock that another
\* call took.
ProviderNowOfOtherCall(reading, other) == other

\* self.now(): the reading of the clock a call of parse_expression takes,
\* once, and works from.
ProviderNow(reading, other) == reading

\* parse_expression on what parse returned, the parse error handed back.
ResolveParsed(b, result, t) ==
    IF result.ok THEN ParseExpression(b, result.value, t) ELSE result

InitCalls ==
    /\ util \in [tag : {"Call"}, input : CallInputs, language : Languages, now : CallNows,
                 parsed : {Idle}, resolved : {Idle}]
    /\ input \in CallInputs
    /\ language \in Languages
    /\ now \in CallNows
    /\ backend \in Backends
    /\ parsed = Idle
    /\ expr = Idle
    /\ resolved = Idle

\* temps_core::parse of the first call.
FirstParse ==
    /\ parsed = Idle
    /\ parsed' = Parse(input, language)
    /\ UNCHANGED <<util, input, language, now, backend, expr, resolved>>

\* parse_expression of the first call.
FirstResolve ==
    /\ parsed # Idle
    /\ resolved = Idle
    /\ expr' = IF parsed.ok THEN parsed.value ELSE Idle
    /\ resolved' = ResolveParsed(backend, parsed, ProviderNow(now, util.now))
    /\ UNCHANGED <<util, input, language, parsed, now, backend>>

\* temps_core::parse of the second call.
SecondParse ==
    /\ util.parsed = Idle
    /\ util' = [util EXCEPT !.parsed = Parse(util.input, util.language)]
    /\ UNCHANGED <<input, language, parsed, now, backend, expr, resolved>>

\* parse_expression of the second call.
SecondResolve ==
    /\ util.parsed # Idle
    /\ util.resolved = Idle
    /\ util' = [util EXCEPT !.resolved =
                    ResolveParsed(backend, util.parsed, ProviderNow(util.now, now))]
    /\ UNCHANGED <<input, language, parsed, now, backend, expr, resolved>>

NextCalls ==
    \/ FirstParse
    \/ FirstResolve
    \/ SecondParse
    \/ SecondResolve

SpecCalls == InitCalls /\ [][NextCalls]_vars

OrderedAlternatives(lang) ==
    IF lang = "English"
    THEN <<ParseIsoDatetime, EnglishParseDateFormat, EnglishParseDayAtTime, EnglishParseNow,
           EnglishParseDayReference, EnglishParseTime, EnglishParseRelativePast,
           EnglishParseRelativeFuture>>
    ELSE <<ParseIsoDatetime, GermanParseDateFormat, GermanParseDayAtTime, GermanParseNow,
           GermanParseDayReference, GermanParseTime, GermanParseRelativePast,
           GermanParseRelativeFuture>>

\* The input after the whitespace the parse of the language takes in front.
Trimmed(lang, text) == Run(Whitespace0(lang), text).rest

\* The places in the order of the alternatives that match a prefix of text.
MatchingAlternatives(lang, text) ==
    {i \in DOMAIN OrderedAlternatives(lang) : Run(OrderedAlternatives(lang)[i], text).ok}

\* What the i-th alternative leaves of text is whitespace the parse takes.
ConsumesAll(lang, text, i) ==
    Run(Whitespace0(lang), Run(OrderedAlternatives(lang)[i], text).rest).rest = <<>>

\* The outcome the first of the matching alternatives gives: its value if
\* it consumes the text, no value otherwise or if none matches.
FirstMatchOutcome(lang, text, matching) ==
    IF matching = {} THEN None
    ELSE LET first == CHOOSE i \in matching : \A j \in matching : i <= j
         IN  IF ConsumesAll(lang, text, first)
             THEN Some(Run(OrderedAlternatives(lang)[first], text).value)
             ELSE None

\* A text of the shape YYYY-MM-DD.
IsDateShape(text) ==
    /\ Len(text) = 10
    /\ \A i \in {1, 2, 3, 4, 6, 7, 9, 10} : text[i] \in AsciiDigits
    /\ text[5] = "-" /\ text[8] = "-"

\* C20: parse returns the result of the first alternative, in the order ISO
\* datetime, locale date, day and time, now, day reference, time of day,
\* relative past, relative future, that matches a prefix of the input after
\* its leading whitespace, and fails when that match leaves input
\* unconsumed, whatever a later alternative would match; so a text of the
\* shape YYYY-MM-DD is Absolute, never Date, in both languages.
C20_FirstAlternative ==
    Parsed =>
        LET outcome == FirstMatchOutcome(language, Trimmed(language, input),
                                         MatchingAlternatives(language, Trimmed(language, input)))
        IN  /\ IsNone(outcome) => ~parsed.ok
            /\ ~IsNone(outcome) => parsed = Ok(outcome[1])
            /\ IsDateShape(input) => parsed.ok /\ parsed.value.tag = "Absolute"

\* "2024-01-15" was handed to the English grammar, whose ISO and date
\* alternatives both match all of it, and came back as Absolute.
C20_Witness ==
    /\ Parsed
    /\ input = <<"2", "0", "2", "4", "-", "0", "1", "-", "1", "5">>
    /\ language = "English"
    /\ {1, 2} \subseteq MatchingAlternatives(language, input)
    /\ ConsumesAll(language, input, 2)
    /\ Run(EnglishParseDateFormat, input).value.tag = "Date"
    /\ parsed.ok /\ parsed.value.tag = "Absolute"

(***************************************************************************)
(* Whitespace around an expression                                         *)
(***************************************************************************)

\* The outcome of parse on a phrase is the outcome on that phrase with
\* whitespace of the set chars put before and after it.
PaddingIgnored(chars) ==
    Parsed =>
        \A s \in Phrases, a \in Pads, b \in Pads :
            (input = a \o s \o b /\ \A i \in DOMAIN (a \o b) : (a \o b)[i] \in chars) =>
                SameOutcome(parsed, Parse(s, language))

\* C21: for both languages, parse(w1 + s + w2, L) equals parse(s, L) for all
\* runs w1, w2 of spaces, tabs and newlines.
C21_WhitespaceIgnored == PaddingIgnored(WhitespaceChars)

\* The same for the English grammar with any of these characters, and for
\* the German grammar with spaces alone.
C21_EnglishOrSpacesOnly ==
    /\ language = "English" => PaddingIgnored(WhitespaceChars)
    /\ language = "German" => PaddingIgnored({" "})

(***************************************************************************)
(* Times of day                                                            *)
(***************************************************************************)

DateOnly ==
    /\ Resolved
    /\ \/ expr.tag = "Date"
       \/ expr.tag = "Absolute" /\ (expr.hour = NoneU \/ expr.minute = NoneU)

\* The moments whose system zone is that of t.
NowsInZoneOf(t) == {u \in ZonedNows \cup TransitionNows : SystemOffsets(u) = SystemOffsets(t)}

\* The resolved value is 00:00:00 in the system zone on the written date,
\* at whatever moment of that zone the expression is resolved.
MidnightOfWrittenDate ==
    /\ resolved.ok
    /\ resolved.value = AtMidnight(expr, resolved.value.offset)
    /\ resolved.value.offset \in LocalOffsets(now, resolved.value)
    /\ \A u \in NowsInZoneOf(now) : ParseExpression(backend, expr, u) = resolved

\* C23: resolving Date{day, month, year}, or an Absolute without hour and
\* minute, yields 00:00:00 in the system zone on exactly the written
\* calendar date (year, month, day), independent of now.
C23_DateIsMidnight ==
    (DateOnly /\ IsValidDate(expr.year, expr.month, expr.day)) => MidnightOfWrittenDate

\* The same on chrono for every year, and on jiff for the years of up to
\* four digits.
C23_MidnightUpToYear9999 ==
    (DateOnly /\ IsValidDate(expr.year, expr.month, expr.day)
       /\ (backend = "chrono" \/ expr.year <= 9999)) => MidnightOfWrittenDate

(***************************************************************************)
(* The date format of a language                                           *)
(***************************************************************************)

\* C24: the locale date format is day-first.  A text of a one- or two-digit
\* field, a separator, such a field, a separator and four digits parses,
\* in English with '/' or '-' and in German with '.', to Date{day: first
\* field, month: second field, year: third field}; English rejects the text
\* with dots and German the text with slashes.
C24_DayFirstDateFormat ==
    Parsed =>
        \A c \in DateCases :
            c.text = input =>
                /\ c.separators \subseteq DateSeparatorsOf(language) =>
                      parsed = Ok([tag |-> "Date", day |-> c.day, month |-> c.month,
                                   year |-> c.year])
                /\ (language = "English" /\ "." \in c.separators) => ~parsed.ok
                /\ (language = "German" /\ "/" \in c.separators) => ~parsed.ok

\* "1.2.2024" was handed to the German grammar and is the first of February.
C24_Witness ==
    /\ Parsed
    /\ input = <<"1", ".", "2", ".", "2", "0", "2", "4">>
    /\ language = "German"
    /\ parsed.ok /\ parsed.value.tag = "Date"
    /\ parsed.value.day = 1 /\ parsed.value.month = 2 /\ parsed.value.year = 2024

(***************************************************************************)
(* The meridiem after the digits of a time                                 *)
(***************************************************************************)

\* The DayTime a phrase of MeridiemCases is written from.
MeridiemDayTime(c) == DayTime(c.day, TimeOfDay(c.hour, c.minute, c.second, c.meridiem))

\* C25: the English grammar accepts a day and a time with the meridiem
\* written directly after the digits: "tomorrow at 3:30pm" parses to
\* DayTime{Tomorrow, Time{3, 30, 0, PM}}, the value of "tomorrow at 3:30 pm".
C25_MeridiemAttached ==
    (Parsed /\ language = "English") =>
        \A c \in MeridiemCases :
            input = c.attached =>
                /\ parsed = Ok(MeridiemDayTime(c))
                /\ parsed = Parse(c.spaced, language)

\* With whitespace before the meridiem the phrase parses to that DayTime;
\* without it the phrase is a parse error.
C25_MeridiemAfterWhitespace ==
    (Parsed /\ language = "English") =>
        \A c \in MeridiemCases :
            /\ input = c.spaced => parsed = Ok(MeridiemDayTime(c))
            /\ input = c.attached => ~parsed.ok

(***************************************************************************)
(* Hours of the 12-hour clock                                              *)
(***************************************************************************)

\* A Time or a DayTime whose time has a meridiem was resolved.
WithMeridiem ==
    /\ Resolved
    /\ expr.tag \in {"Time", "DayTime"}
    /\ expr.time.meridiem # "None"

\* C27: resolving a Time or DayTime whose meridiem is present and whose
\* hour is outside 1..12 ("13:00 am", "0:30 pm") fails with InvalidTime.
C27_MeridiemHourRange ==
    (WithMeridiem /\ expr.time.hour \notin 1 .. 12) =>
        (~resolved.ok /\ resolved.err.kind = "InvalidTime")

\* The same where the converted hour is beyond 23: with a meridiem an hour
\* is refused only then, so 13 and more with PM and 24 and more with AM.
C27_ConvertedHourRange ==
    (WithMeridiem /\ Convert12To24Hour(expr.time.hour, expr.time.meridiem) > 23) =>
        (~resolved.ok /\ resolved.err.kind = "InvalidTime")

(***************************************************************************)
(* Offsets of an Absolute                                                  *)
(***************************************************************************)

\* An Absolute of a valid date and time under an offset was resolved.
WithOffsetTimezone ==
    /\ Resolved
    /\ expr.tag = "Absolute"
    /\ expr.timezone.tag = "Offset"
    /\ IsValidDate(expr.year, expr.month, expr.day)
    /\ expr.hour # NoneU /\ expr.minute # NoneU
    /\ ValidClock(expr.hour, expr.minute, OrZero(expr.second))

IsInvalidTimezoneOffset ==
    resolved = Err(InvalidTimezoneOffset(expr.timezone.hours, expr.timezone.minutes))

\* C28: resolving an Absolute whose timezone is Offset{hours, minutes} with
\* hours outside -12..=14 or minutes outside 0..=59 fails with
\* InvalidTimezoneOffset{hours, minutes}, on both backends.
C28_OffsetRange ==
    (WithOffsetTimezone
       /\ (expr.timezone.hours \notin (-12) .. 14 \/ expr.timezone.minutes \notin 0 .. 59)) =>
        IsInvalidTimezoneOffset

\* What the backends refuse: chrono an offset of a day or more, jiff one
\* beyond 25:59:59, of the seconds hours * 3600 + minutes * 60; every
\* other offset is taken.
C28_LibraryOffsetRange ==
    WithOffsetTimezone =>
        LET seconds == CalculateTimezoneOffsetSeconds(expr.timezone.hours,
                                                      expr.timezone.minutes)
            limit == IF backend = "chrono" THEN SECONDS_PER_DAY - 1 ELSE 93599
        IN  IF seconds < -limit \/ seconds > limit
            THEN IsInvalidTimezoneOffset
            ELSE resolved.ok

(***************************************************************************)
(* The ISO form                                                            *)
(***************************************************************************)

\* The Absolute a text of DateZoneCases denotes: its date and its zone.
DateZoneAbsolute(c) ==
    Absolute(c.date.year, c.date.month, c.date.day, NoneU, NoneU, NoneU, NoneU, c.zone)

\* C29: every text of the form
\* YYYY-MM-DD[{T|space}HH:MM[:SS[.fraction]]][Z|+-HH[:MM]] is accepted by
\* parse in both languages and yields Absolute with the corresponding
\* fields; the zone is optional independently of the time, so a date
\* followed directly by 'Z' or an offset is accepted, and the seconds are
\* optional when a time is given.
C29_IsoFormAccepted ==
    Parsed =>
        /\ \A c \in IsoCases : input = c.text => parsed = Ok(IsoAbsolute(c))
        /\ \A c \in DateZoneCases : input = c.text => parsed = Ok(DateZoneAbsolute(c))

\* The zone is read only after a time: every text of the form with a time
\* or without a zone parses to its Absolute, with or without seconds, and
\* a date followed directly by 'Z' or an offset is a parse error.
C29_ZoneOnlyAfterTime ==
    Parsed =>
        /\ \A c \in IsoCases : input = c.text => parsed = Ok(IsoAbsolute(c))
        /\ \A c \in DateZoneCases : input = c.text => ~parsed.ok

(***************************************************************************)
(* The weekday a reference resolves to                                     *)
(***************************************************************************)

\* A reference to a weekday was resolved to a moment.
WeekdayResolved ==
    /\ Resolved
    /\ expr.tag = "Day"
    /\ expr.day.ref = "Weekday"
    /\ resolved.ok

\* The offset calculate_weekday_offset returns leads from the current
\* weekday to the target: (c + offset) mod 7 = t.
OffsetReachesTarget(c, t, modifier) ==
    (c + CalculateWeekdayOffset(c, t, modifier)) % DAYS_PER_WEEK = t

\* C30: for every current weekday index c in 0..6, target index t in 0..6
\* and modifier, (c + calculate_weekday_offset(c, t, modifier)) mod 7 = t,
\* and the date a weekday reference resolves to falls on the requested
\* weekday.
C30_ResolvesToRequestedWeekday ==
    /\ \A c \in WeekdayIndices, t \in WeekdayIndices, m \in Modifiers :
          OffsetReachesTarget(c, t, m)
    /\ WeekdayResolved =>
          WeekdayFromMonday(resolved.value.year, resolved.value.month, resolved.value.day)
              = expr.day.day

\* The same where the date is reached in calendar days: on temps-jiff, and
\* on temps-chrono when the zone's offset that many times 24 hours from
\* now is the offset of now.
C30_RequestedWeekdayInCalendarDays ==
    (backend = "jiff"
       \/ ~WeekdayResolved
       \/ ChronoPlusDays(now, DayOffset(expr.day, now)).offset = now.offset) =>
        C30_ResolvesToRequestedWeekday

(***************************************************************************)
(* hhmmss: durations written as "hh:mm:ss" and "hh:mm:ss.xxx".  A duration *)
(* is held as its whole number of milliseconds.                            *)
(***************************************************************************)

\* Integer division and remainder of Rust: the quotient is truncated
\* toward zero and the remainder takes the sign of the dividend.
TruncDiv(a, b) == IF a >= 0 THEN a \div b ELSE -((-a) \div b)
TruncRem(a, b) == a - b * TruncDiv(a, b)

\* format!("{n:0w}"): the sign, then the digits padded with zeros to the
\* width w, the sign counted in.
FormatZeroPadded(n, w) ==
    IF n < 0 THEN <<"-">> \o FormatPadded(-n, IF w > 1 THEN w - 1 ELSE 0)
    ELSE FormatPadded(n, w)

\* impl Hhmmss for chrono::Duration: num_seconds() is truncated toward
\* zero, and the milliseconds are what num_milliseconds() has beyond it.
ChronoSecondsMilliseconds(d) ==
    [seconds |-> TruncDiv(d, 1000), milliseconds |-> d - 1000 * TruncDiv(d, 1000)]

\* The fields with their sign taken off and the prefix that stands for it:
\* the sign is read from the seconds alone.
Unsigned(seconds, milliseconds) ==
    IF seconds < 0
    THEN [seconds |-> -seconds, milliseconds |-> -milliseconds, prefix |-> <<"-">>]
    ELSE [seconds |-> seconds, milliseconds |-> milliseconds, prefix |-> <<>>]

\* "{prefix}{hours:02}:{minutes:02}:{seconds:02}"
FormatHhmmss(u) ==
    u.prefix \o FormatZeroPadded(TruncDiv(u.seconds, 3600), 2) \o <<":">>
        \o FormatZeroPadded(TruncDiv(TruncRem(u.seconds, 3600), 60), 2) \o <<":">>
        \o FormatZeroPadded(TruncRem(TruncRem(u.seconds, 3600), 60), 2)

\* seconds_to_hhmmss
SecondsToHhmmss(seconds) == FormatHhmmss(Unsigned(seconds, 0))

\* seconds_milliseconds_to_hhmmssxxxx
SecondsMillisecondsToHhmmssxxxx(seconds, milliseconds) ==
    FormatHhmmss(Unsigned(seconds, milliseconds)) \o <<".">>
        \o FormatZeroPadded(Unsigned(seconds, milliseconds).milliseconds, 3)

\* Hhmmss::hhmmss and Hhmmss::hhmmssxxx of a chrono::Duration
Hhmmss(d) == SecondsToHhmmss(ChronoSecondsMilliseconds(d).seconds)
Hhmmssxxx(d) ==
    SecondsMillisecondsToHhmmssxxxx(ChronoSecondsMilliseconds(d).seconds,
                                    ChronoSecondsMilliseconds(d).milliseconds)

\* The most hours, and the fields, durations are put together from.
MaxHours == 100
DurationHours == {0, 1, 2, 99, MaxHours}
DurationMinutes == {0, 2, 59}
DurationSeconds == {0, 20, 59}
DurationMilliseconds == {0, 1, 50, 200, 333, 999}

Millis(h, m, s, ms) == ((h * 60 + m) * 60 + s) * 1000 + ms

\* Durations forward and backward.
Durations ==
    {sign * Millis(f[1], f[2], f[3], f[4]) :
        sign \in {-1, 1},
        f \in DurationHours \X DurationMinutes \X DurationSeconds \X DurationMilliseconds}

InitHhmmss == InitUtils

CallHhmmss ==
    /\ \E d \in Durations :
          util' = [fn |-> "hhmmss", args |-> [duration |-> d], ret |-> Hhmmss(d)]
    /\ UNCHANGED <<input, language, parsed, now, backend, expr, resolved>>

CallHhmmssxxx ==
    /\ \E d \in Durations :
          util' = [fn |-> "hhmmssxxx", args |-> [duration |-> d], ret |-> Hhmmssxxx(d)]
    /\ UNCHANGED <<input, language, parsed, now, backend, expr, resolved>>

NextHhmmss ==
    \/ CallHhmmss
    \/ CallHhmmssxxx

SpecHhmmss == InitHhmmss /\ [][NextHhmmss]_vars

IsHhmmssxxxCall == util # Idle /\ util.fn = "hhmmssxxx"

\* "hh:mm:ss.xxx" of a duration of ms milliseconds forward: hours of two
\* or more digits, minutes and seconds of two in 00..59, milliseconds of
\* three in 000..999.
ClockText(ms) ==
    FormatPadded(ms \div 3600000, 2) \o <<":">>
        \o FormatPadded((ms \div 60000) % 60, 2) \o <<":">>
        \o FormatPadded((ms \div 1000) % 60, 2) \o <<".">>
        \o FormatPadded(ms % 1000, 3)

\* C26: hhmmssxxx of a negative duration is "-" followed by hhmmssxxx of
\* its magnitude, also when the magnitude is below one second, with the
\* minutes and seconds in 00..59 and the milliseconds in 000..999;
\* -(1 h + 333 ms) is "-01:00:00.333".
C26_NegativeIsMinusMagnitude ==
    IsHhmmssxxxCall =>
        /\ util.args.duration < 0 =>
              /\ util.ret = <<"-">> \o Hhmmssxxx(-util.args.duration)
              /\ util.ret = <<"-">> \o ClockText(-util.args.duration)
        /\ util.args.duration >= 0 => util.ret = ClockText(util.args.duration)
        /\ util.args.duration = -Millis(1, 0, 0, 333) => util.ret = <<"-", "0", "1", ":", "0", "0", ":", "0", "0", ".", "3", "3", "3">>

\* The same for the durations of a second or more, forward or backward,
\* and for those forward of less.
C26_FromOneSecond ==
    (IsHhmmssxxxCall /\ (util.args.duration >= 0 \/ util.args.duration <= -1000)) =>
        C26_NegativeIsMinusMagnitude
====
